---- MODULE Spec2Model ----
(***************************************************************************)
(* Model of the PCP-assignment / specialist-search dialogue of PCP.py:     *)
(* the LangGraph flow graph (nodes, routers, edges), the interrupt/resume  *)
(* engine with its in-memory checkpointer, and the two HTTP handlers       *)
(* init_conversation and chat.                                             *)
(*                                                                         *)
(* External collaborators (LLM gateway, member REST, provider search,     *)
(* SOAP writes, default-radius CSV) are nondeterministic: every call       *)
(* either raises or returns one value of a small set.                      *)
(***************************************************************************)
EXTENDS Naturals, Integers, Sequences, FiniteSets, TLC

VARIABLES
    env,            \* fixed per behaviour: thread ids uuid4 may produce, messages users send
    values,         \* checkpointer: thread id -> committed PCPState
    checkpoint_next,\* checkpointer: thread id -> node scheduled next, "END", or "none"
    resumes,        \* checkpointer: thread id -> resume values already given to the scheduled task
    run,            \* the HTTP invocation being handled (graph.stream in progress), or Idle
    response,       \* thread id -> last HTTP response returned for the thread
    hist,           \* thread id -> observation of what the Steps of the thread did
    invocations     \* HTTP invocations handled, counted where the environment caps them

vars == <<env, values, checkpoint_next, resumes, run, response, hist, invocations>>

(***************************************************************************)
(* Values                                                                  *)
(***************************************************************************)
\* Python None (a key that is absent reads as None through state.get).
NONE == "<None>"

ThreadIds == {"t1", "t2"}

\* Request messages: a default menu prompt, and a yes/no prompt (free text at the menu).
Messages == {"Assign PCP", "Yes"}

\* member_id query parameters of /init-conversation.
MemberIds == {" ", "M1"}

SPECIALIST_SERVICE_QUESTION == "<p>What services are you looking for at this location?</p>"

DEFAULT_PROMPTS == <<"Assign PCP", "Search for specialist", "Need something else">>

\* The invocations a behaviour with two conversations is followed for.
MaxInvocations == 4

\* langgraph's default recursion_limit: config_for_thread passes none.
RecursionLimit == 25

\* str.strip() on the values the model uses.
Strip(x) == IF x = " " THEN "" ELSE x

\* str.lower() on the values the model uses.
Lower(x) ==
    CASE x = "Yes" -> "yes"
      [] x = "No" -> "no"
      [] x = "Assign PCP" -> "assign pcp"
      [] x = "new PCP" -> "new pcp"
      [] OTHER -> x

\* str(x): None prints as the text "None".
Str(x) == IF x = NONE THEN "None" ELSE x

\* Python truthiness of an optional string.
Truthy(x) == x # NONE /\ x # ""

\* a or b
Or(a, b) == IF Truthy(a) THEN a ELSE b

\* A test that takes every answer for a yes.
ContainsAnything(x) == TRUE

\* "yes" in x, on the values the model uses.
ContainsYes(x) == x = "yes"

InSeq(x, q) == \E i \in 1..Len(q) : q[i] = x

(***************************************************************************)
(* Collaborator results                                                    *)
(***************************************************************************)
RAISE == "<raise>"

\* call_horizon: the text of the reply, or an exception (HTTP error, auth error).
LlmTexts == {"llm text"}

\* member_search: a payload with every key, or one with the keys missing.
MemberPayloads ==
    { [grgrCk |-> "g1", memeCk |-> "m1", grpId |-> "G1", subscriberId |-> "S1"],
      [grgrCk |-> NONE, memeCk |-> NONE, grpId |-> NONE, subscriberId |-> NONE] }

\* get_active_pcp(...)["active"]: a current provider, or none.
ActivePcps ==
    { [provId |-> "a1", effectiveDate |-> "2024-01-01"],
      [provId |-> NONE, effectiveDate |-> NONE] }

\* Normalized provider lists the search services return (provider ids).
ProviderLists == { <<>>, <<"p1">> }

\* Provider lists of a search service whose result changes from one call to the next.
ChangingProviderLists == { <<"p1">>, <<"p2">> }

\* The lists the search services return in the environment of the behaviour.
SearchResults == env.lists

ProviderIds == {"p1", "p2"}

\* get_default_radius_in_miles
Radii == {"25", "50"}

(***************************************************************************)
(* PCPState                                                                *)
(***************************************************************************)
\* initial_state of init_conversation; the keys it does not set read as None.
InitialState(member_id) ==
    [ member_id |-> Strip(member_id),
      stage |-> "",
      csr_query |-> "",
      ai_response |-> "",
      prompts |-> <<>>,
      prompt_title |-> NONE,
      ai_response_code |-> 0,
      ai_response_type |-> NONE,
      termination_reason |-> NONE,
      knows_provider |-> NONE,
      raw_provider_input |-> NONE,
      raw_filter_input |-> NONE,
      providers_result |-> <<>>,
      last_selected_provider_id |-> NONE,
      selected_provider_snapshot |-> NONE,
      active_provider_id |-> NONE,
      active_eff_dt |-> NONE,
      meme_ck |-> NONE,
      grgr_ck |-> NONE,
      group_id |-> NONE,
      subscriber_id |-> NONE,
      last_followup_action |-> NONE,
      initial_assign_text |-> NONE,
      flow |-> NONE,
      specialist_service_specialty |-> NONE,
      specialist_raw_filter_input |-> NONE,
      call_name |-> NONE ]

\* The state of a thread id the checkpointer holds nothing for.
NoState == InitialState("")

\* mark_llm / mark_api
mark_llm(s) == [s EXCEPT !.call_name = "LLM"]
mark_api(s, name) == [s EXCEPT !.call_name = name]

\* The assignments every Step makes before it answers.
Say(s, stage, code, type, text, title, prompts) ==
    [s EXCEPT !.stage = stage, !.ai_response_code = code, !.ai_response_type = type,
              !.ai_response = text, !.prompt_title = title, !.prompts = prompts]

(***************************************************************************)
(* interrupt() and the three ways a Step execution ends                    *)
(***************************************************************************)
\* The k-th interrupt() call of one execution of a node: rs are the resume
\* values the task was given in earlier invocations, nr the value of this
\* invocation's Command(resume=...) (NONE once consumed or in later super-steps).
HasResume(rs, nr, k) == k <= Len(rs) \/ (k = Len(rs) + 1 /\ nr # NONE)
ResumeValue(rs, nr, k) == IF k <= Len(rs) THEN rs[k] ELSE nr
ResumesAfter(rs, nr, k) == IF k <= Len(rs) THEN rs ELSE Append(rs, nr)

NoPayload == [prompt |-> "", stage |-> "", prompts |-> <<>>, prompt_title |-> ""]

Payload(prompt, stage) == [NoPayload EXCEPT !.prompt = prompt, !.stage = stage]

\* The node returned: its state is written to the channels.
Return(s, calls) ==
    [kind |-> "return", state |-> s, payload |-> NoPayload, rs |-> <<>>, calls |-> calls]

\* The node called interrupt() with no resume value: nothing it assigned is kept.
Interrupt(p, rs, calls) ==
    [kind |-> "interrupt", state |-> NoState, payload |-> p, rs |-> rs, calls |-> calls]

\* The node raised: the exception leaves graph.stream.
Raise(calls) ==
    [kind |-> "raise", state |-> NoState, payload |-> NoPayload, rs |-> <<>>, calls |-> calls]

(***************************************************************************)
(* LLM helpers                                                             *)
(***************************************************************************)
\* What the gateway may answer to a classification prompt: an exception, text
\* that is not JSON, or JSON carrying the named value.
RawJson(valuesOf) == {[ok |-> TRUE, v |-> x] : x \in valuesOf} \cup {[ok |-> FALSE, v |-> NONE]}

MenuIntentsRaw == RawJson({"assign_pcp", "specialist", "unsupported", "billing", NONE})

\* llm_route_menu_intent after call_horizon returned raw.
llm_route_menu_intent(raw) ==
    IF ~raw.ok THEN "unsupported"
    ELSE LET intent == Strip(Str(Or(raw.v, ""))) IN
         IF intent \in {"assign_pcp", "specialist", "unsupported"} THEN intent ELSE "unsupported"

\* json.loads(raw) of an LLM helper: the reply was JSON, or the except clause ran.
JsonLoads(raw) == [call |-> "json.loads", arg |-> "", result |-> IF raw.ok THEN "ok" ELSE "error"]

\* Replies to llm_decide_followup_action: JSON {"action", "provider_id"} or not JSON.
FollowupRaw ==
    {[ok |-> TRUE, action |-> a, provider_id |-> p] :
        a \in {"provider_id_only", "address", "assign_pcp", "other"},
        p \in ProviderIds \cup {NONE}}
    \cup {[ok |-> FALSE, action |-> NONE, provider_id |-> NONE]}

llm_decide_followup_action(raw) ==
    IF raw.ok THEN [action |-> raw.action, provider_id |-> raw.provider_id]
    ELSE [action |-> "other", provider_id |-> NONE]

\* Replies to llm_extract_provider_query_from_assign_text.
ExtractRaw ==
    { [ok |-> TRUE, search_type |-> "id", provider_id |-> "p1", zip |-> NONE, name |-> NONE],
      [ok |-> TRUE, search_type |-> "zip_only", provider_id |-> NONE, zip |-> "08540", name |-> NONE],
      [ok |-> TRUE, search_type |-> "name_city_state", provider_id |-> NONE, zip |-> NONE, name |-> "Smith"],
      [ok |-> TRUE, search_type |-> "by_name", provider_id |-> NONE, zip |-> NONE, name |-> NONE],
      [ok |-> FALSE, search_type |-> NONE, provider_id |-> NONE, zip |-> NONE, name |-> NONE] }

llm_extract_provider_query_from_assign_text(raw) ==
    IF ~raw.ok
    THEN [search_type |-> "unknown", provider_id |-> NONE, zip |-> NONE, name |-> NONE]
    ELSE LET st == Strip(Or(raw.search_type, "unknown")) IN
         [search_type |-> IF st \in {"id", "name_city_state", "zip_only"} THEN st ELSE "unknown",
          provider_id |-> raw.provider_id, zip |-> raw.zip, name |-> raw.name]

\* Replies to llm_parse_provider_input: the search type (the fallback is a name search).
ProviderInputRaw == RawJson({"id", "name_city_state", "zip_only", NONE})

llm_parse_provider_input(raw) ==
    IF raw.ok THEN [search_type |-> raw.v] ELSE [search_type |-> "name_city_state"]

(***************************************************************************)
(* Graph nodes: each gives the set of ways one execution can end           *)
(***************************************************************************)
node_start(s, rs, nr) ==
    { Raise(<<>>) } \cup
    { LET s1 == Say(mark_llm(s), "MENU", 100, "Dialog", ai_msg,
                    "How can I assist you today?", DEFAULT_PROMPTS)
      IN  IF ~HasResume(rs, nr, 1)
          THEN Interrupt([Payload(ai_msg, "MENU") EXCEPT !.prompts = DEFAULT_PROMPTS], rs, <<>>)
          ELSE LET requested == ResumeValue(rs, nr, 1)
                   user_choice == Strip(requested)
               IN  Return([s1 EXCEPT !.csr_query = requested,
                                     !.initial_assign_text =
                                        IF InSeq(user_choice, DEFAULT_PROMPTS) THEN "" ELSE user_choice],
                          <<>>)
      : ai_msg \in LlmTexts }

node_collect_termination_reason(s, rs, nr) ==
    IF Truthy(s.termination_reason) THEN { Return(s, <<>>) }
    ELSE LET reason == Strip(Or(s.csr_query, "")) IN
         IF Truthy(reason)
         THEN { Return([s EXCEPT !.termination_reason = reason, !.csr_query = ""], <<>>) }
         ELSE { Return(s, <<>>) }

\* The member-lookup part of node_assign_pcp_ask_termination: the states in
\* which the try block can leave, each with whether it raised.
AskTerminationLookup(s) ==
    { [raised |-> TRUE, state |-> s] } \cup
    UNION { LET s1 == [s EXCEPT !.grgr_ck = Strip(Str(mp.grgrCk)),
                                !.meme_ck = Strip(Str(mp.memeCk)),
                                !.group_id = Strip(Str(mp.grpId)),
                                !.subscriber_id = Strip(Str(mp.subscriberId))]
            IN  { [raised |-> TRUE, state |-> s1] } \cup
                { [raised |-> FALSE,
                   state |-> [s1 EXCEPT
                        !.active_eff_dt = IF Truthy(a.effectiveDate)
                                          THEN Strip(Str(a.effectiveDate)) ELSE NONE,
                        !.active_provider_id = IF Truthy(a.provId) THEN Str(a.provId) ELSE ""]]
                  : a \in ActivePcps }
          : mp \in MemberPayloads }

\* A node that hands over to the next node without asking for the reason.
node_assign_pcp_ask_termination_unasked(s, rs, nr) == { Return(s, <<>>) }

node_assign_pcp_ask_termination(s, rs, nr) ==
    IF ~Truthy(s.member_id)
    THEN { Return(Say(s, "ERROR", 500, "Dialog",
                      "Member information is missing. Please start a new conversation.",
                      s.prompt_title, <<>>), <<>>) }
    ELSE IF Truthy(s.termination_reason) THEN { Return(s, <<>>) }
    ELSE UNION {
        IF l.raised
        THEN { Return(Say(mark_api(l.state, "get_active_pcp"), "ERROR", 500, "Dialog",
                          "Unable to fetch your current PCP details right now. Please try again later.",
                          l.state.prompt_title, <<>>), <<>>) }
        ELSE { Raise(<<>>) } \cup
             { LET s1 == Say(mark_llm(l.state), "WAIT_TERMINATION_REASON", 112, "Dialog",
                             ai_msg, l.state.prompt_title, <<>>)
               IN  IF ~HasResume(rs, nr, 1)
                   THEN Interrupt(Payload(ai_msg, "WAIT_TERMINATION_REASON"), rs, <<>>)
                   ELSE Return([s1 EXCEPT !.csr_query = Strip(ResumeValue(rs, nr, 1))], <<>>)
               : ai_msg \in LlmTexts }
        : l \in AskTerminationLookup(s) }

\* The free-form short-circuit of node_collect_knows_provider for one parsed reply:
\* the provider input it takes from the menu text, or NONE when it takes none.
FreeFormInput(parsed) ==
    LET pid == IF Truthy(parsed.provider_id) THEN Strip(parsed.provider_id) ELSE ""
        z == IF Truthy(parsed.zip) THEN Strip(parsed.zip) ELSE ""
        name == IF Truthy(parsed.name) THEN Strip(parsed.name) ELSE ""
    IN  IF parsed.search_type = "id" /\ Truthy(pid) THEN pid
        ELSE IF parsed.search_type = "zip_only" /\ Truthy(z) THEN z
        ELSE IF (parsed.search_type = "name_city_state"
                    \/ (parsed.search_type = "unknown" /\ Truthy(name)))
                /\ (Truthy(name) \/ Truthy(z))
        THEN (IF Truthy(name) THEN name ELSE z)
        ELSE NONE

AskKnowsProvider(s, rs, nr) ==
    { Raise(<<>>) } \cup
    { LET s1 == Say(mark_llm(s), "ASK_KNOWS_PROVIDER", 101, "AURA", "", ai_msg, <<"Yes", "No">>)
      IN  IF ~HasResume(rs, nr, 1)
          THEN Interrupt([Payload(ai_msg, "ASK_KNOWS_PROVIDER") EXCEPT !.prompts = <<"Yes", "No">>],
                         rs, <<>>)
          ELSE LET answer == Lower(Strip(ResumeValue(rs, nr, 1)))
               IN  Return([s1 EXCEPT !.csr_query = answer,
                                     !.knows_provider = IF ContainsYes(answer) THEN "True" ELSE "False"],
                          <<>>)
      : ai_msg \in LlmTexts }

\* A node that goes on without asking, leaving knows_provider as it found it.
node_collect_knows_provider_unasked(s, rs, nr) == { Return(s, <<>>) }

node_collect_knows_provider(s, rs, nr) ==
    LET candidate == Strip(Or(s.initial_assign_text, "")) IN
    IF s.knows_provider = NONE /\ ~Truthy(s.raw_provider_input) /\ Truthy(candidate)
    THEN { Raise(<<>>) } \cup
         UNION { LET input == FreeFormInput(llm_extract_provider_query_from_assign_text(raw))
                 IN  IF input # NONE
                     THEN { Return([s EXCEPT !.knows_provider = "True",
                                             !.raw_provider_input = input,
                                             !.csr_query = input,
                                             !.initial_assign_text = ""], <<>>) }
                     ELSE AskKnowsProvider(s, rs, nr)
               : raw \in ExtractRaw }
    ELSE IF s.knows_provider = NONE THEN AskKnowsProvider(s, rs, nr)
    ELSE { Return(s, <<>>) }

\* A node that asks for the provider whatever input the state already holds.
node_collect_provider_input_asks(s, rs, nr) ==
    { Interrupt(Payload(ai_msg, "ASK_PROVIDER_INPUT"), rs, <<>>) : ai_msg \in LlmTexts }

node_collect_provider_input(s, rs, nr) ==
    IF Truthy(s.raw_provider_input) THEN { Return(s, <<>>) }
    ELSE { Raise(<<>>) } \cup
         { LET s1 == Say(mark_llm(s), "ASK_PROVIDER_INPUT", 103, "Dialog", ai_msg, "", <<>>)
           IN  IF ~HasResume(rs, nr, 1)
               THEN Interrupt(Payload(ai_msg, "ASK_PROVIDER_INPUT"), rs, <<>>)
               ELSE Return([s1 EXCEPT !.raw_provider_input = ResumeValue(rs, nr, 1),
                                      !.csr_query = ResumeValue(rs, nr, 1)], <<>>)
           : ai_msg \in LlmTexts }

\* The question block of node_collect_no_flow_filters with the default distance
\* inserted, up to the end of the item that holds it (the items after it are fixed
\* text): the adjacent literals of the source have no line breaks between them.
NoFlowFiltersHtml(default_distance) ==
    "<p><b>Ask the below questions:</b></p>"
    \o "<ul>"
    \o "<li>May I know any other preferred Language, if not English and Gender (Male/Female/Either)?</li>"
    \o "<li>The default distance is " \o default_distance \o " miles, please confirm if any changes needed.</li>"

node_collect_no_flow_filters(s, rs, nr) ==
    LET s0 == mark_llm(s)
        group_id == Strip(Or(s.group_id, ""))
    IN  IF Truthy(s.raw_filter_input) THEN { Return(s0, <<>>) }
        ELSE IF ~Truthy(group_id)
        THEN { Return(Say(s0, "ERROR", 500, "AURA",
                          "Member details are missing (groupId). Please start a new conversation.",
                          "", <<>>), <<>>) }
        ELSE { Raise(<<>>) } \cup
             { LET html == NoFlowFiltersHtml(d)
                   pr == <<"Please proceed with the default values.">>
                   s1 == Say(s0, "ASK_NO_FLOW_FILTERS", 103, "Dialog", html, "", pr)
               IN  IF ~HasResume(rs, nr, 1)
                   THEN Interrupt([Payload(html, "ASK_NO_FLOW_FILTERS") EXCEPT !.prompts = pr], rs, <<>>)
                   ELSE Return([s1 EXCEPT !.raw_filter_input = Strip(ResumeValue(rs, nr, 1)),
                                          !.csr_query = Strip(ResumeValue(rs, nr, 1))], <<>>)
               : d \in Radii }

node_collect_filter_input(s, rs, nr) ==
    IF Truthy(s.raw_filter_input) THEN { Return(s, <<>>) }
    ELSE { Raise(<<>>) } \cup
         { LET s1 == Say(mark_llm(s), "ASK_FILTERS", 104, "Dialog", ai_msg, "Search filters", <<>>)
           IN  IF ~HasResume(rs, nr, 1)
               THEN Interrupt(Payload(ai_msg, "ASK_FILTERS"), rs, <<>>)
               ELSE Return([s1 EXCEPT !.raw_filter_input = ResumeValue(rs, nr, 1),
                                      !.csr_query = ResumeValue(rs, nr, 1)], <<>>)
           : ai_msg \in LlmTexts }

(***************************************************************************)
(* Observation of collaborator calls (what a Step execution called)        *)
(***************************************************************************)
Call(name, arg, result) == [call |-> name, arg |-> arg, result |-> result]

\* json.dumps of the grid / of the address payload, by provider id.
RECURSIVE JoinIds(_)
JoinIds(ids) ==
    IF ids = <<>> THEN ""
    ELSE IF Len(ids) = 1 THEN "{ProviderID:" \o ids[1] \o "}"
    ELSE "{ProviderID:" \o ids[1] \o "}," \o JoinIds(Tail(ids))

ProvidersJson(ids) == "{providers:[" \o JoinIds(ids) \o "]}"

AddressJson(prov_id) == "{providerAddress:[{ProviderID:" \o prov_id \o "}]}"

\* The SHOW_PROVIDER_LIST tail shared by the branches of node_run_provider_search:
\* the search call (which may raise), the grid, the interrupt, the resumed return.
ShowProviderList(s, rs, nr, search) ==
    { Raise(<<Call(search, "", RAISE)>>) } \cup
    { LET calls == <<Call(search, "", "ok")>>
          s1 == Say([mark_api(s, search) EXCEPT !.providers_result = providers],
                    "SHOW_PROVIDER_LIST", 107, "AURA", ProvidersJson(providers),
                    "Select a provider id to update", <<>>)
      IN  IF ~HasResume(rs, nr, 1)
          THEN Interrupt(Payload(s1.ai_response, "SHOW_PROVIDER_LIST"), rs, calls)
          ELSE Return([s1 EXCEPT !.csr_query = ResumeValue(rs, nr, 1)], calls)
      : providers \in SearchResults }

\* A search node that searches again whatever providers_result holds.
node_run_provider_search_again(s, rs, nr) ==
    ShowProviderList(s, rs, nr, "provider_search_by_id")

\* The executions outs, each after the call c made before them.
After(c, outs) == { [out EXCEPT !.calls = <<c>> \o @] : out \in outs }

node_run_provider_search(s, rs, nr) ==
    IF s.providers_result # <<>> THEN { Return(s, <<>>) }
    ELSE IF s.knows_provider = "True"
    THEN { Raise(<<>>) } \cup
         UNION {
            LET search_type == llm_parse_provider_input(raw).search_type
                parsed == Call("llm_parse_provider_input", "", search_type)
            IN
            IF search_type = "name_city_state"
            THEN { Raise(<<parsed>>) }
                 \cup After(parsed, ShowProviderList(s, rs, nr, "provider_search_by_name"))
            ELSE IF search_type = "zip_only"
            THEN { Raise(<<parsed>>) } \cup
                 (IF ~Truthy(s.group_id) \/ ~Truthy(s.subscriber_id)
                  THEN { Return(Say(s, "ERROR", 500, "Dialog",
                                    "Member details are missing (groupId/subscriberId). Please start a new conversation.",
                                    "Error", <<>>), <<parsed>>) }
                  ELSE { Return(Say(s, "ERROR", 500, "Dialog",
                                    "Unable to determine default search radius",
                                    "Error", <<>>), <<parsed>>) }
                       \cup After(parsed, ShowProviderList(s, rs, nr, "provider_generic_search")))
            ELSE After(parsed, ShowProviderList(s, rs, nr, "provider_search_by_id"))
            : raw \in ProviderInputRaw }
    ELSE IF ~Truthy(Strip(Or(s.group_id, ""))) \/ ~Truthy(Strip(Or(s.subscriber_id, "")))
    THEN { Return(Say(s, "ERROR", 500, "AURA",
                      "Member details are missing (groupId/subscriberId). Please start a new conversation.",
                      "", <<>>), <<>>) }
    ELSE { Raise(<<>>) } \cup ShowProviderList(s, rs, nr, "provider_generic_search")

\* A wait that hands the stored message back without asking for the next one.
node_wait_next_followup_through(s, rs, nr) == { Return(mark_llm(s), <<>>) }

node_wait_next_followup(s, rs, nr) ==
    IF ~HasResume(rs, nr, 1)
    THEN { Interrupt(Payload("", "WAIT_NEXT_FOLLOWUP"), rs, <<>>) }
    ELSE { Return([mark_llm(s) EXCEPT !.csr_query = ResumeValue(rs, nr, 1)], <<>>) }

node_provider_id_only_warning(s, rs, nr) ==
    LET msg == "Please check the response that you have provided."
        s1 == Say(mark_llm(s), "PROVIDER_ID_ONLY_WARNING", 101, "AURA", msg, "", <<>>)
    IN  IF ~HasResume(rs, nr, 1)
        THEN { Interrupt(Payload(msg, "PROVIDER_ID_ONLY_WARNING"), rs, <<>>) }
        ELSE { Return([s1 EXCEPT !.csr_query = Strip(ResumeValue(rs, nr, 1)),
                                 !.last_followup_action = NONE], <<>>) }

\* The part of node_provider_interaction after csr_query is known: classify and act.
ProviderFollowup(s) ==
    { Raise(<<Call("llm_decide_followup_action", s.csr_query, RAISE)>>) } \cup
    { LET decision == llm_decide_followup_action(raw)
          action == decision.action
          pid == decision.provider_id
          calls == <<Call("llm_decide_followup_action", s.csr_query, action),
                     Call("decision.provider_id", s.csr_query, pid),
                     JsonLoads(raw)>>
          chosen == Truthy(pid) /\ InSeq(pid, s.providers_result)
          s0 == mark_llm(s)
      IN  IF action = "provider_id_only"
          THEN Return([s0 EXCEPT !.last_followup_action = "provider_id_only"], calls)
          ELSE IF action = "address" /\ chosen
          THEN Return([Say(s0, "PROVIDER_FOLLOWUP_RESPONSE", 108, "AURA", AddressJson(pid), "", <<>>)
                          EXCEPT !.last_followup_action = "address"], calls)
          ELSE IF action = "assign_pcp" /\ chosen
          THEN Return([Say(s0, "READY_TO_UPDATE_PCP", 101, "AURA", "", "", <<>>)
                          EXCEPT !.last_selected_provider_id = Strip(pid),
                                 !.selected_provider_snapshot = pid,
                                 !.last_followup_action = "assign_pcp"], calls)
          ELSE Return([Say(s0, "PROVIDER_FOLLOWUP_RESPONSE", 110, "Dialog",
                           "I could not understand which provider or action you meant.",
                           "Clarification", <<>>)
                          EXCEPT !.last_followup_action = "other"], calls)
      : raw \in FollowupRaw }

node_provider_interaction(s, rs, nr) ==
    IF s.providers_result = <<>>
    THEN { Return(Say(s, "ERROR", 404, "Dialog",
                      "No providers are available in the current result. Please start a new search.",
                      "No providers found", <<>>), <<>>) }
    ELSE IF ~Truthy(s.csr_query)
    THEN { Raise(<<>>) } \cup
         UNION { LET s1 == Say(mark_llm(s), "PROVIDER_ACTION", 108, "Dialog", ai_msg, "Next action", <<>>)
                 IN  IF ~HasResume(rs, nr, 1)
                     THEN { Interrupt(Payload(ai_msg, "PROVIDER_ACTION"), rs, <<>>) }
                     ELSE ProviderFollowup([s1 EXCEPT !.csr_query = ResumeValue(rs, nr, 1)])
               : ai_msg \in LlmTexts }
    ELSE ProviderFollowup(s)

\* The error return of node_update_pcp's except clause and of its guards.
UpdatePcpError(s, text) ==
    [Say(s, "ERROR", 500, "AURA", text, "", <<>>) EXCEPT !.last_followup_action = "error"]

\* An update that adds the new provider before it terminates the current one.
UpdatePcpAddFirst(s, new_pid, curr_pid) ==
    { Return([Say(mark_api(s, "call_execute_ex"), "COMPLETED", 101, "AURA", "", "New PCP has assigned",
                  <<"Appointment Scheduling", "Confirmation Fax">>)
                 EXCEPT !.last_followup_action = "assign_pcp"],
             <<Call("call_execute_ex", "add", "ok"), Call("call_execute_ex", "terminate", "ok"),
               Call("get_active_pcp", "verify", new_pid)>>) }

\* An update that reports success whatever the verification read returns.
UpdatePcpUnverified(s, new_pid, curr_pid) ==
    { Return([Say(mark_api(s, "call_execute_ex"), "COMPLETED", 101, "AURA", "", "New PCP has assigned",
                  <<"Appointment Scheduling", "Confirmation Fax">>)
                 EXCEPT !.last_followup_action = "assign_pcp"],
             <<Call("call_execute_ex", "terminate", "ok"), Call("call_execute_ex", "add", "ok"),
               Call("get_active_pcp", "verify", verified_pid)>>)
      : verified_pid \in ProviderIds \cup {"a1", ""} }

\* The try block of node_update_pcp: terminate (when there is a current
\* provider), add, verify; calls lists what was issued and how it ended.
UpdatePcpWrites(s, new_pid, curr_pid) ==
    LET term_ok == IF curr_pid # "" THEN <<Call("call_execute_ex", "terminate", "ok")>> ELSE <<>>
        s1 == mark_api(s, "call_execute_ex")
        failed == UpdatePcpError(s1, "An error occurred while updating PCP")
    IN  (IF curr_pid # ""
         THEN { Return(failed, <<Call("call_execute_ex", "terminate", RAISE)>>) }
         ELSE {})
        \cup { Return(failed, Append(term_ok, Call("call_execute_ex", "add", RAISE))) }
        \cup { Return(failed, term_ok \o <<Call("call_execute_ex", "add", "ok"),
                                           Call("get_active_pcp", "verify", RAISE)>>) }
        \cup { LET calls == term_ok \o <<Call("call_execute_ex", "add", "ok"),
                                         Call("get_active_pcp", "verify", verified_pid)>>
               IN  IF verified_pid # new_pid
                   THEN Return(failed, calls)
                   ELSE Return([Say(s1, "COMPLETED", 101, "AURA", "", "New PCP has assigned",
                                    <<"Appointment Scheduling", "Confirmation Fax">>)
                                   EXCEPT !.last_followup_action = "assign_pcp"], calls)
               : verified_pid \in ProviderIds \cup {"a1", ""} }

\* An update that issues the terminate write again after it failed.
node_update_pcp_retry(s, rs, nr) ==
    { Return(UpdatePcpError(mark_api(s, "call_execute_ex"), "An error occurred while updating PCP"),
             <<Call("call_execute_ex", "terminate", RAISE), Call("call_execute_ex", "terminate", "ok"),
               Call("call_execute_ex", "add", RAISE)>>) }

\* The SOAP helpers are imported names, so the first guard never fires;
\* settings.pcpType / settings.mctrOrsn may be absent from the configuration.
\* An update that writes without looking at the member and termination details.
node_update_pcp_unguarded(s, rs, nr) ==
    UpdatePcpWrites(s, Strip(Str(Or(s.last_selected_provider_id, ""))), Strip(Or(s.active_provider_id, "")))

node_update_pcp(s, rs, nr) ==
    LET new_pid == Strip(Str(Or(s.last_selected_provider_id, "")))
        meme_ck == Strip(Or(s.meme_ck, ""))
        grgr_ck == Strip(Or(s.grgr_ck, ""))
        curr_pid == Strip(Or(s.active_provider_id, ""))
        trsn == Strip(Or(s.termination_reason, ""))
    IN  IF ~Truthy(new_pid)
        THEN { Return([Say(s, "PROVIDER_FOLLOWUP_RESPONSE", 101, "AURA",
                           "Unable to identify the provider to assign. Please select a Provider ID from the list.",
                           "", <<>>) EXCEPT !.last_followup_action = "other"], <<>>) }
        ELSE IF ~(Truthy(meme_ck) /\ Truthy(grgr_ck) /\ Truthy(trsn))
        THEN { Return(UpdatePcpError(s, "Missing required member/termination details to update PCP."), <<>>) }
        ELSE { Return(UpdatePcpError(s, "PCP_TYPE / MCTR_ORSN missing from settings."), <<>>) }
             \cup UpdatePcpWrites(s, new_pid, curr_pid)

(***************************************************************************)
(* Specialist flow nodes                                                   *)
(***************************************************************************)
\* Texts the LLM may return when asked to repeat a template: the template or another text.
EchoTexts(expected) == {expected} \cup LlmTexts

\* specialist_ask_service without the check of the text: the LLM's reply is shown.
node_specialist_ask_service_echo(s, rs, nr) ==
    { Raise(<<>>) } \cup
    { IF ~HasResume(rs, nr, 1)
      THEN Interrupt(Payload(reply, "ASK_SPECIALIST_SERVICE"), rs, <<>>)
      ELSE Return([Say(mark_llm([s EXCEPT !.flow = "specialist"]),
                       "ASK_SPECIALIST_SERVICE", 109, "AURA", reply, "", <<>>)
                     EXCEPT !.specialist_service_specialty = Strip(ResumeValue(rs, nr, 1)),
                            !.csr_query = "",
                            !.stage = "SPECIALIST_SERVICE_CAPTURED"], <<>>)
      : reply \in EchoTexts(SPECIALIST_SERVICE_QUESTION) }

node_specialist_ask_service(s, rs, nr) ==
    { Raise(<<>>) } \cup
    { LET ai_msg == IF reply # SPECIALIST_SERVICE_QUESTION THEN SPECIALIST_SERVICE_QUESTION ELSE reply
          s1 == Say(mark_llm([s EXCEPT !.flow = "specialist"]),
                    "ASK_SPECIALIST_SERVICE", 109, "AURA", ai_msg, "", <<>>)
      IN  IF ~HasResume(rs, nr, 1)
          THEN Interrupt(Payload(ai_msg, "ASK_SPECIALIST_SERVICE"), rs, <<>>)
          ELSE Return([s1 EXCEPT !.specialist_service_specialty = Strip(ResumeValue(rs, nr, 1)),
                                 !.csr_query = "",
                                 !.stage = "SPECIALIST_SERVICE_CAPTURED"], <<>>)
      : reply \in EchoTexts(SPECIALIST_SERVICE_QUESTION) }

\* SPECIALIST_FILTERS_TEMPLATE, as the text before and after its <<default_distance>>
\* token, up to the end of the item that holds it (the items after it are fixed
\* text): each line of the template ends in a line break.
SPECIALIST_FILTERS_TEMPLATE ==
    << "<p><b>Ask the below questions:</b></p>\n"
       \o "<ul>\n"
       \o "<li>May I know any other preferred Language, if not English and Gender (Male/Female/Either)?</li>\n"
       \o "<li>The default distance is ",
       "<<default_distance>>",
       " miles, please confirm if any changes needed.</li>\n" >>

\* template.replace("<<default_distance>>", str(default_distance))
RECURSIVE ReplaceToken(_, _, _)
ReplaceToken(parts, token, by) ==
    IF parts = <<>> THEN ""
    ELSE (IF Head(parts) = token THEN by ELSE Head(parts)) \o ReplaceToken(Tail(parts), token, by)

\* The LLM's reply taken as it is.
KeepReply(ai_msg, expected_html) == ai_msg

\* if ai_msg != expected_html: ai_msg = expected_html
EnforceExact(ai_msg, expected_html) == IF ai_msg # expected_html THEN expected_html ELSE ai_msg

SpecialistError(s, text) == Say(s, "ERROR", 500, "AURA", text, "", <<>>)

\* The member lookup of node_specialist_ask_filters: the states the try block can leave.
AskFiltersLookup(s) ==
    IF Truthy(s.group_id) /\ Truthy(s.subscriber_id) /\ Truthy(s.meme_ck) /\ Truthy(s.grgr_ck)
    THEN { [raised |-> FALSE, state |-> s] }
    ELSE { [raised |-> TRUE, state |-> s] } \cup
         { [raised |-> FALSE,
            state |-> [s EXCEPT !.grgr_ck = Strip(Str(Or(mp.grgrCk, ""))),
                                !.meme_ck = Strip(Str(Or(mp.memeCk, ""))),
                                !.group_id = Strip(Str(Or(mp.grpId, ""))),
                                !.subscriber_id = Strip(Str(Or(mp.subscriberId, "")))]]
           : mp \in MemberPayloads }

node_specialist_ask_filters(s, rs, nr) ==
    IF ~Truthy(Strip(Or(s.member_id, "")))
    THEN { Return(SpecialistError(s, "Member information is missing. Please start a new conversation."), <<>>) }
    ELSE UNION {
        IF l.raised
        THEN { Return(SpecialistError(mark_api(l.state, "member_search"),
                                      "Unable to fetch member details right now. Please try again later."), <<>>) }
        ELSE IF ~Truthy(Strip(Or(l.state.group_id, "")))
        THEN { Return(SpecialistError(l.state,
                                      "Member group information is missing. Please start a new conversation."), <<>>) }
        ELSE { Return(SpecialistError(l.state,
                                      "Unable to determine the default distance right now. Please try again later."), <<>>),
               Raise(<<>>) } \cup
             UNION { { LET expected_html == ReplaceToken(SPECIALIST_FILTERS_TEMPLATE, "<<default_distance>>", d)
                           ai_msg == EnforceExact(reply, expected_html)
                           s1 == Say(mark_llm(l.state), "ASK_SPECIALIST_FILTERS", 103, "Dialog", ai_msg, "", <<>>)
                       IN  IF ~HasResume(rs, nr, 1)
                           THEN Interrupt(Payload(ai_msg, "ASK_SPECIALIST_FILTERS"), rs, <<>>)
                           ELSE Return([s1 EXCEPT !.specialist_raw_filter_input = Strip(ResumeValue(rs, nr, 1)),
                                                  !.csr_query = "",
                                                  !.stage = "SPECIALIST_FILTERS_CAPTURED"], <<>>)
                       : reply \in EchoTexts(ReplaceToken(SPECIALIST_FILTERS_TEMPLATE, "<<default_distance>>", d)) }
                   : d \in Radii }
        : l \in AskFiltersLookup(s) }

node_run_specialist_generic_search(s, rs, nr) ==
    IF s.providers_result # <<>> THEN { Return(s, <<>>) }
    ELSE IF ~Truthy(Strip(Or(s.group_id, ""))) \/ ~Truthy(Strip(Or(s.subscriber_id, "")))
    THEN { Return(SpecialistError(s,
                "Member details are missing (groupId/subscriberId). Please start a new conversation."), <<>>) }
    ELSE IF ~Truthy(Strip(Or(s.specialist_service_specialty, "")))
    THEN { Return(Say(s, "ASK_SPECIALTY", 109, "AURA",
                      "Service specialty code is missing. Please enter the service specialty code.",
                      "", <<>>), <<>>) }
    ELSE { Raise(<<>>), Raise(<<Call("provider_generic_search", "", RAISE)>>) } \cup
         { LET calls == <<Call("provider_generic_search", "", "ok")>>
               s1 == Say([mark_api(s, "provider_generic_search") EXCEPT !.providers_result = providers],
                         "SHOW_SPECIALIST_PROVIDER_LIST", 107, "AURA", ProvidersJson(providers), "", <<>>)
           IN  IF ~HasResume(rs, nr, 1)
               THEN Interrupt(Payload(s1.ai_response, "SHOW_SPECIALIST_PROVIDER_LIST"), rs, calls)
               ELSE Return([s1 EXCEPT !.csr_query = ResumeValue(rs, nr, 1)], calls)
           : providers \in SearchResults }

\* The part of node_specialist_provider_address after the user's message is
\* known; k is the index of the next interrupt() call of this execution.
SpecialistFollowup(s, rs, nr, k) ==
    { Raise(<<Call("llm_decide_followup_action", Strip(Or(s.csr_query, "")), RAISE)>>) } \cup
    { LET decision == llm_decide_followup_action(raw)
          action == decision.action
          pid == decision.provider_id
          calls == <<Call("llm_decide_followup_action", Strip(Or(s.csr_query, "")), action),
                     JsonLoads(raw)>>
          s0 == mark_llm(s)
          clarify == Say(s0, "SPECIALIST_NEED_ADDRESS_CLARIFICATION", 110, "AURA",
                         "Please provide a Provider ID and ask for its address.", "", <<>>)
      IN  IF action = "provider_id_only"
          THEN LET s1 == [Say(s0, "SPECIALIST_PROVIDER_FOLLOWUP_RESPONSE", 101, "AURA",
                              "Please check the response that you have provided", "", <<>>)
                             EXCEPT !.last_followup_action = "provider_id_only"]
               IN  IF ~HasResume(rs, nr, k)
                   THEN Interrupt(Payload(s1.ai_response, "SPECIALIST_PROVIDER_FOLLOWUP_RESPONSE"), rs, calls)
                   ELSE Return([s1 EXCEPT !.csr_query = Strip(ResumeValue(rs, nr, k))], calls)
          ELSE IF action # "address" \/ ~Truthy(pid) THEN Return(clarify, calls)
          ELSE IF ~InSeq(Strip(Str(pid)), s.providers_result)
          THEN Return(Say(s0, "SPECIALIST_NEED_ADDRESS_CLARIFICATION", 110, "AURA",
                          "I couldn't find that Provider ID in the current results.", "", <<>>), calls)
          ELSE LET s1 == Say(s0, "COMPLETED", 110, "AURA", AddressJson(Strip(pid)),
                             "Do you need further assistance?", <<"Yes", "No">>)
               IN  IF ~HasResume(rs, nr, k)
                   THEN Interrupt([Payload(s1.ai_response, "SPECIALIST_COMPLETED")
                                      EXCEPT !.prompt_title = s1.prompt_title, !.prompts = s1.prompts],
                                  rs, calls)
                   ELSE Return([s1 EXCEPT !.csr_query = Strip(ResumeValue(rs, nr, k))], calls)
      : raw \in FollowupRaw }

node_specialist_provider_address(s, rs, nr) ==
    IF s.providers_result = <<>>
    THEN { Return(Say(s, "ERROR", 404, "AURA",
                      "No providers are available in the current result. Please start a new search.",
                      "", <<>>), <<>>) }
    ELSE IF ~Truthy(Strip(Or(s.csr_query, "")))
    THEN IF ~HasResume(rs, nr, 1)
         THEN { Interrupt(Payload("", "WAIT_SPECIALIST_PROVIDER_ACTION"), rs, <<>>) }
         ELSE SpecialistFollowup([s EXCEPT !.csr_query = Strip(ResumeValue(rs, nr, 1))],
                                 ResumesAfter(rs, nr, 1),
                                 IF 1 <= Len(rs) THEN nr ELSE NONE, 2)
    ELSE SpecialistFollowup(s, rs, nr, 1)

\* Replies to the yes/no classification of node_specialist_post_completion.
YesNoRaw == RawJson({"yes", "no", "unknown", "No", NONE})

node_specialist_post_completion(s, rs, nr) ==
    LET txt == Lower(Strip(Or(s.csr_query, ""))) IN
    { Raise(<<Call("call_horizon", txt, RAISE)>>) } \cup
    { LET ans == IF raw.ok THEN Lower(Or(raw.v, "unknown")) ELSE "unknown"
          calls == <<Call("call_horizon", txt, ans)>>
          s0 == mark_llm(s)
      IN  IF ans = "no"
          THEN Return(Say(s0, "CLOSED", 101, "AURA",
                          "We're closing your request-feel free to return if you need anything else.",
                          "", <<>>), calls)
          ELSE Return([s0 EXCEPT !.providers_result = <<>>, !.csr_query = "", !.stage = "GO_MENU"], calls)
      : raw \in YesNoRaw }

node_return_to_menu(s, rs, nr) ==
    LET menu_title == "How can I assist you today?"
        s1 == mark_llm(Say(s, "START", 101, "AURA", "", menu_title, DEFAULT_PROMPTS))
    IN  IF ~HasResume(rs, nr, 1)
        THEN { Interrupt([Payload("", "RETURN_TO_MENU")
                             EXCEPT !.prompt_title = menu_title, !.prompts = DEFAULT_PROMPTS], rs, <<>>) }
        ELSE { Return([s1 EXCEPT !.csr_query = Strip(ResumeValue(rs, nr, 1))], <<>>) }

(***************************************************************************)
(* Routers and the graph                                                   *)
(***************************************************************************)
Nodes ==
    { "start", "assign_pcp_ask_termination", "collect_termination_reason",
      "collect_knows_provider", "collect_provider_input", "collect_no_flow_filters",
      "collect_filter_input", "run_provider_search", "provider_interaction",
      "specialist_ask_service", "specialist_ask_filters", "run_specialist_generic_search",
      "specialist_provider_address", "specialist_post_completion",
      "provider_id_only_warning", "return_to_menu", "update_pcp", "wait_next_followup" }

END == "END"

\* The values route_from_menu can return (RAISE when call_horizon raises).
route_from_menu(s) ==
    LET text == Strip(Lower(Or(s.csr_query, ""))) IN
    IF ~Truthy(text) THEN {"unsupported"}
    ELSE {RAISE} \cup {llm_route_menu_intent(raw) : raw \in MenuIntentsRaw}

route_knows_provider(s) ==
    IF s.knows_provider = "True" THEN {"knows"} ELSE {"unknown"}

\* A follow-up router that lets a bare provider id through to the update.
route_pid_only_assigns(s) ==
    IF s.last_followup_action \in {"assign_pcp", "provider_id_only"} THEN {"assign"} ELSE {"loop"}

route_after_provider_followup(s) ==
    IF s.last_followup_action = "assign_pcp" THEN {"assign"}
    ELSE IF s.last_followup_action = "provider_id_only" THEN {"pid_only"}
    ELSE {"loop"}

\* A post-completion router that ends the traversal whatever the answer was.
route_after_specialist_completion_ends(s) == {"end"}

route_after_specialist_completion(s) ==
    IF s.stage = "CLOSED" THEN {"end"}
    ELSE IF s.stage = "GO_MENU" THEN {"menu"}
    ELSE {"menu"}

route_after_specialist_provider_address(s) ==
    IF s.stage = "COMPLETED" THEN {"completed"} ELSE {"loop"}

\* builder.add_conditional_edges: the nodes that have a router.
Routed ==
    { "start", "specialist_provider_address", "collect_knows_provider",
      "specialist_post_completion", "provider_interaction" }

Router(n, s) ==
    CASE n = "start" -> route_from_menu(s)
      [] n = "specialist_provider_address" -> route_after_specialist_provider_address(s)
      [] n = "collect_knows_provider" -> route_knows_provider(s)
      [] n = "specialist_post_completion" -> route_after_specialist_completion(s)
      [] n = "provider_interaction" -> route_after_provider_followup(s)

\* Path maps in which the menu's unsupported key starts the assign-PCP flow.
PathMapUnsupportedAssigns(n) ==
    CASE n = "start" ->
            [assign_pcp |-> "assign_pcp_ask_termination",
             specialist |-> "specialist_ask_service",
             unsupported |-> "assign_pcp_ask_termination"]
      [] n = "specialist_provider_address" ->
            [completed |-> "specialist_post_completion", loop |-> "specialist_provider_address"]
      [] n = "collect_knows_provider" ->
            [knows |-> "collect_provider_input", unknown |-> "collect_no_flow_filters"]
      [] n = "specialist_post_completion" ->
            [menu |-> "return_to_menu", end |-> END]
      [] n = "provider_interaction" ->
            [loop |-> "wait_next_followup", assign |-> "update_pcp", pid_only |-> "provider_id_only_warning"]

\* path_map of each conditional edge.
PathMap(n) ==
    CASE n = "start" ->
            [assign_pcp |-> "assign_pcp_ask_termination",
             specialist |-> "specialist_ask_service",
             unsupported |-> END]
      [] n = "specialist_provider_address" ->
            [completed |-> "specialist_post_completion", loop |-> "specialist_provider_address"]
      [] n = "collect_knows_provider" ->
            [knows |-> "collect_provider_input", unknown |-> "collect_no_flow_filters"]
      [] n = "specialist_post_completion" ->
            [menu |-> "return_to_menu", end |-> END]
      [] n = "provider_interaction" ->
            [loop |-> "wait_next_followup", assign |-> "update_pcp", pid_only |-> "provider_id_only_warning"]

\* builder.add_edge: the unconditional successor; a node without an edge ends the graph.
Edge(n) ==
    CASE n = "assign_pcp_ask_termination" -> "collect_termination_reason"
      [] n = "collect_termination_reason" -> "collect_knows_provider"
      [] n = "specialist_ask_service" -> "specialist_ask_filters"
      [] n = "specialist_ask_filters" -> "run_specialist_generic_search"
      [] n = "run_specialist_generic_search" -> "specialist_provider_address"
      [] n = "provider_id_only_warning" -> "provider_interaction"
      [] n = "collect_no_flow_filters" -> "run_provider_search"
      [] n = "collect_provider_input" -> "run_provider_search"
      [] n = "collect_filter_input" -> "run_provider_search"
      [] n = "run_provider_search" -> "provider_interaction"
      [] n = "wait_next_followup" -> "provider_interaction"
      [] n = "update_pcp" -> END
      [] OTHER -> END

\* Where the graph goes after node n returned state s, with the key the router
\* gave (NONE on an unconditional edge): next is a node, END, or RAISE (the
\* router raised, or returned a key its path_map does not have).
Routes(n, s) ==
    IF n \in Routed
    THEN { [key |-> key,
            next |-> IF key = RAISE \/ key \notin DOMAIN PathMap(n) THEN RAISE ELSE PathMap(n)[key]]
           : key \in Router(n, s) }
    ELSE { [key |-> NONE, next |-> Edge(n)] }

Successors(n, s) == { r.next : r \in Routes(n, s) }

\* builder.add_node: the function registered under each name.
NodeRun(n, s, rs, nr) ==
    CASE n = "start" -> node_start(s, rs, nr)
      [] n = "assign_pcp_ask_termination" -> node_assign_pcp_ask_termination(s, rs, nr)
      [] n = "collect_termination_reason" -> node_collect_termination_reason(s, rs, nr)
      [] n = "collect_knows_provider" -> node_collect_knows_provider(s, rs, nr)
      [] n = "collect_provider_input" -> node_collect_provider_input(s, rs, nr)
      [] n = "collect_no_flow_filters" -> node_collect_no_flow_filters(s, rs, nr)
      [] n = "collect_filter_input" -> node_collect_filter_input(s, rs, nr)
      [] n = "run_provider_search" -> node_run_provider_search(s, rs, nr)
      [] n = "provider_interaction" -> node_provider_interaction(s, rs, nr)
      [] n = "specialist_ask_service" -> node_specialist_ask_service(s, rs, nr)
      [] n = "specialist_ask_filters" -> node_specialist_ask_filters(s, rs, nr)
      [] n = "run_specialist_generic_search" -> node_run_specialist_generic_search(s, rs, nr)
      [] n = "specialist_provider_address" -> node_specialist_provider_address(s, rs, nr)
      [] n = "specialist_post_completion" -> node_specialist_post_completion(s, rs, nr)
      [] n = "provider_id_only_warning" -> node_provider_id_only_warning(s, rs, nr)
      [] n = "return_to_menu" -> node_return_to_menu(s, rs, nr)
      [] n = "update_pcp" -> node_update_pcp(s, rs, nr)
      [] n = "wait_next_followup" -> node_wait_next_followup(s, rs, nr)

(***************************************************************************)
(* HTTP responses                                                          *)
(***************************************************************************)
\* A configuration that names the same checkpoint thread for every conversation.
config_for_one_thread(thread_id) == "t1"

config_for_thread(thread_id) == thread_id

\* A response that echoes the state's csr_query under one session id.
base_response_of_state(thread_id, ai_response, stage, csr_query, prompts, ai_response_code, ai_response_type, prompt_title, call_source) ==
    [ APIStatus |-> "success", APISessionId |-> "t1", CSRQuery |-> "",
      AIResponse |-> ai_response, AIResponseType |-> ai_response_type,
      AIResponseCode |-> ai_response_code, CurrentStage |-> stage,
      PromptTitle |-> prompt_title, Prompts |-> prompts, CallSource |-> call_source ]

base_response(thread_id, ai_response, stage, csr_query, prompts, ai_response_code, ai_response_type, prompt_title, call_source) ==
    [ APIStatus |-> "success", APISessionId |-> thread_id, CSRQuery |-> csr_query,
      AIResponse |-> ai_response, AIResponseType |-> ai_response_type,
      AIResponseCode |-> ai_response_code, CurrentStage |-> stage,
      PromptTitle |-> prompt_title, Prompts |-> prompts, CallSource |-> call_source ]

\* No response was produced yet for the thread.
NoResponse == base_response(NONE, NONE, NONE, NONE, <<>>, 0, NONE, NONE, NONE)

\* The handler did not return: an exception left it and the server answers
\* HTTP 500; raised_by tells a node, a router or the recursion limit.
ServerError(thread_id, raised_by) ==
    [NoResponse EXCEPT !.APIStatus = "unhandled", !.APISessionId = thread_id, !.AIResponse = raised_by]

\* last_state.get(key, default) of chat: has is FALSE while last_state is {}.
Get(has, v, default) == IF has /\ v # NONE THEN v ELSE default

\* The response init_conversation returns on the first interrupt.
\* An init response that shows the stage, code and type node_start assigns.
InitResponseOfStart(thread_id, ls) ==
    base_response(thread_id, "", "MENU", "", DEFAULT_PROMPTS, 100, "Dialog",
                  "How can I assist you today?", Or(ls.call_name, "LLM"))

InitResponse(thread_id, ls) ==
    base_response(thread_id, "", "START", "", DEFAULT_PROMPTS, 101, "AURA",
                  "How can I assist you today?", Or(ls.call_name, "LLM"))

\* The response chat returns for an interrupt with payload p; ls is the state
\* the last completed node of this invocation returned (has: there is one).
\* A response mapper with only the default rule: everything but the stage is taken
\* from the last state.
InterruptResponseFromState(thread_id, message, p, ls, has) ==
    base_response(thread_id, Get(has, ls.ai_response, ""),
                  Or(p.stage, Or(Get(has, ls.stage, ""), "")), Or(message, ""),
                  IF has THEN ls.prompts ELSE <<>>,
                  IF has /\ ls.ai_response_code # 0 THEN ls.ai_response_code ELSE 101,
                  Get(has, ls.ai_response_type, "AURA"), Get(has, ls.prompt_title, ""),
                  Or(Get(has, ls.call_name, NONE), ""))

\* A response mapper that answers every suspension with the node's own payload.
InterruptResponseFromPayload(thread_id, message, p, ls, has) ==
    base_response(thread_id, p.prompt, p.stage, Or(message, ""), p.prompts, 101, "AURA",
                  p.prompt_title, Or(Get(has, ls.call_name, NONE), ""))

InterruptResponse(thread_id, message, p, ls, has) ==
    LET call_source == Or(Get(has, ls.call_name, NONE), "")
        csr == Or(message, "")
        ls_stage == Get(has, ls.stage, "")
        ls_text == Get(has, ls.ai_response, "")
        ls_prompts == IF has THEN ls.prompts ELSE <<>>
        ls_title == Get(has, ls.prompt_title, "")
        ls_code == IF has /\ ls.ai_response_code # 0 THEN ls.ai_response_code ELSE 101
        ls_type == Get(has, ls.ai_response_type, "AURA")
        PromptsOr(a, b, c) == IF a # <<>> THEN a ELSE IF b # <<>> THEN b ELSE c
        text == Or(p.prompt, ls_text)
        R(ai_response, stage, prompts, code, type, title) ==
            base_response(thread_id, ai_response, stage, csr, prompts, code, type, title, call_source)
    IN  CASE p.stage = "WAIT_TERMINATION_REASON" ->
                R(p.prompt, "WAIT_TERMINATION_REASON", <<>>, 112, "AURA", "")
          [] p.stage = "ASK_KNOWS_PROVIDER" ->
                R("", "ASK_KNOWS_PROVIDER", PromptsOr(ls_prompts, <<"Yes", "No">>, <<>>), 101, "AURA",
                  Or(p.prompt, Or(ls_title, "")))
          [] p.stage = "ASK_PROVIDER_INPUT" ->
                R(text, "ASK_PROVIDER_INPUT", <<>>, 103, "Dialog", "")
          [] p.stage = "SHOW_PROVIDER_LIST" ->
                R(text, "SHOW_PROVIDER_LIST", <<>>, 107, "AURA", "Select a provider id to update")
          [] p.stage = "WAIT_NEXT_FOLLOWUP" ->
                R(ls_text, ls_stage, ls_prompts, ls_code, ls_type, ls_title)
          [] p.stage = "ASK_NO_FLOW_FILTERS" ->
                R(text, "ASK_NO_FLOW_FILTERS",
                  PromptsOr(p.prompts, ls_prompts, <<"Please proceed with the default values.">>),
                  103, "Dialog", "")
          [] p.stage = "ASK_SPECIALIST_SERVICE" ->
                R(SPECIALIST_SERVICE_QUESTION, "ASK_SPECIALIST_SERVICE", <<>>, 109, "AURA", "")
          [] p.stage = "ASK_SPECIALIST_FILTERS" ->
                R(text, "ASK_SPECIALIST_FILTERS", <<>>, 103, "Dialog", "")
          [] p.stage = "PROVIDER_ID_ONLY_WARNING" ->
                R(p.prompt, "PROVIDER_ID_ONLY_WARNING", <<>>, 101, "AURA", "")
          [] p.stage = "SHOW_SPECIALIST_PROVIDER_LIST" ->
                R(text, "SHOW_SPECIALIST_PROVIDER_LIST", <<>>, 107, "AURA", "")
          [] p.stage = "SPECIALIST_PROVIDER_FOLLOWUP_RESPONSE" ->
                R(text, "SPECIALIST_PROVIDER_FOLLOWUP_RESPONSE", <<>>, 101, "AURA", "")
          [] p.stage = "SPECIALIST_COMPLETED" ->
                R(text, "COMPLETED", PromptsOr(p.prompts, ls_prompts, <<"Yes", "No">>), 110, "AURA",
                  Or(p.prompt_title, Or(ls_title, "Do you need further assistance?")))
          [] p.stage = "RETURN_TO_MENU" ->
                R("", "START", PromptsOr(p.prompts, ls_prompts, DEFAULT_PROMPTS), 101, "AURA",
                  Or(p.prompt_title, Or(ls_title, "How can I assist you today?")))
          [] OTHER ->
                R(ls_text, Or(p.stage, Or(ls_stage, "")), ls_prompts, ls_code, ls_type, ls_title)

\* The "Completed" response of chat, after graph.stream is exhausted.
CompletedResponse(thread_id, message, ls, has) ==
    base_response(thread_id, Get(has, ls.ai_response, ""), Get(has, ls.stage, ""), Or(message, ""),
                  IF has THEN ls.prompts ELSE <<>>,
                  IF has /\ ls.ai_response_code # 0 THEN ls.ai_response_code ELSE 101,
                  Get(has, ls.ai_response_type, "AURA"), Get(has, ls.prompt_title, ""),
                  Or(Get(has, ls.call_name, NONE), ""))

(***************************************************************************)
(* The engine: graph.stream over the checkpointer, driven by the handlers  *)
(***************************************************************************)
\* No invocation is being handled.  susp, prev_node, prev_calls and prev_key
\* observe the invocation: interrupts raised so far, the node that ran last,
\* the collaborator calls it recorded and the key its router gave.
RunIdle ==
    [ active |-> FALSE, kind |-> NONE, thread |-> NONE, message |-> NONE, pc |-> NONE,
      nr |-> NONE, steps |-> 0, last_state |-> NoState, has_last |-> FALSE,
      susp |-> 0, prev_node |-> NONE, prev_calls |-> <<>>, prev_key |-> NONE ]

\* What is observed of a thread across invocations (not program state).
HistInit ==
    [ suspended_at |-> NONE,    \* the node whose interrupt() the thread waits in
      susp_payload |-> NoPayload,
      interleaved |-> FALSE,    \* another thread was served while this one waited
      terminates |-> 0,         \* terminate writes issued
      adds |-> 0 ]              \* add writes issued

\* The messages of a conversation that chooses "Assign PCP", gives the termination
\* reason and then a provider id; and of one that answers the yes/no question
\* first and asks for the provider's address after the list.
ReasonThenProviderId == <<"Assign PCP", "new PCP", "12345678">>

ReasonYesProviderIdAddress ==
    <<"Assign PCP", "new PCP", "Yes", "12345678", "address of 12345678">>

\* The same conversation with an empty message sent after the list.
ReasonYesProviderIdEmpty == <<"Assign PCP", "new PCP", "Yes", "12345678", "">>

ScriptedMessages == {"Assign PCP", "new PCP", "Yes", "12345678", "address of 12345678", ""}

\* The environments a behaviour may run in: one conversation of any length
\* with every message, two conversations over MaxInvocations invocations,
\* the start of one conversation in which messages may be empty or blank, or
\* one conversation that sends the messages of a script in order while the
\* search result changes.
Envs ==
    { [threads |-> {"t1"}, messages |-> Messages, members |-> MemberIds, cap |-> 0,
       script |-> <<>>, lists |-> ProviderLists],
      [threads |-> ThreadIds, messages |-> {"Yes"}, members |-> {"M1"}, cap |-> MaxInvocations,
       script |-> <<>>, lists |-> ProviderLists],
      [threads |-> {"t1"}, messages |-> {"", " ", "Assign PCP"}, members |-> {"M1"},
       cap |-> MaxInvocations, script |-> <<>>, lists |-> ProviderLists] }
    \cup { [threads |-> {"t1"}, messages |-> ScriptedMessages, members |-> {"M1"},
            cap |-> Len(sc) + 1, script |-> sc, lists |-> ChangingProviderLists]
          : sc \in {ReasonThenProviderId, ReasonYesProviderIdAddress, ReasonYesProviderIdEmpty} }

\* The message is the next one the environment sends.
NextMessage(message) ==
    \/ env.script = <<>>
    \/ invocations \in 1..Len(env.script) /\ message = env.script[invocations]

\* The handlers accept another invocation in this environment.
Accepting == env.cap = 0 \/ invocations < env.cap

Init ==
    /\ env \in Envs
    /\ values = [t \in ThreadIds |-> NoState]
    /\ checkpoint_next = [t \in ThreadIds |-> "none"]
    /\ resumes = [t \in ThreadIds |-> <<>>]
    /\ run = RunIdle
    /\ response = [t \in ThreadIds |-> NoResponse]
    /\ hist = [t \in ThreadIds |-> HistInit]
    /\ invocations = 0

\* A resume that forgets the checkpoint's position and runs the graph from its entry.
EntryPointFromStart(cp_next) == IF cp_next \in Nodes THEN "start" ELSE END

\* The node graph.stream runs first for a checkpoint whose next task is cp_next.
EntryPoint(cp_next) == IF cp_next \in Nodes THEN cp_next ELSE END

RECURSIVE CountCalls(_, _)
CountCalls(calls, arg) ==
    IF calls = <<>> THEN 0
    ELSE (IF Head(calls).call = "call_execute_ex" /\ Head(calls).arg = arg THEN 1 ELSE 0)
         + CountCalls(Tail(calls), arg)

\* The writes a node execution issued are added to the thread's counts.
Observe(h, out) ==
    [h EXCEPT !.terminates = @ + CountCalls(out.calls, "terminate"),
              !.adds = @ + CountCalls(out.calls, "add")]

\* Serving thread t is seen by the threads that wait in an interrupt.
Interleave(h, t) ==
    [u \in ThreadIds |->
        IF u # t /\ h[u].suspended_at # NONE THEN [h[u] EXCEPT !.interleaved = TRUE] ELSE h[u]]

\* GET /init-conversation up to the call of graph.stream.
InitConversation(member_id) ==
    /\ ~run.active /\ Accepting
    /\ invocations' = IF env.cap = 0 THEN 0 ELSE invocations + 1
    /\ Truthy(member_id)
    /\ \E t \in env.threads :
        /\ checkpoint_next[config_for_thread(t)] = "none"
        /\ values' = [values EXCEPT ![config_for_thread(t)] = InitialState(member_id)]
        /\ checkpoint_next' = [checkpoint_next EXCEPT ![config_for_thread(t)] = "start"]
        /\ resumes' = [resumes EXCEPT ![config_for_thread(t)] = <<>>]
        /\ run' = [RunIdle EXCEPT !.active = TRUE, !.kind = "init", !.thread = t, !.message = "",
                                  !.pc = "start", !.last_state = InitialState(member_id),
                                  !.has_last = TRUE]
        /\ hist' = Interleave(hist, t)
    /\ UNCHANGED <<env, response>>

\* POST /chat up to the call of graph.stream(Command(resume=message)).
Chat(t, message) ==
    /\ ~run.active /\ Accepting /\ NextMessage(message)
    /\ invocations' = IF env.cap = 0 THEN 0 ELSE invocations + 1
    /\ run' = [RunIdle EXCEPT !.active = TRUE, !.kind = "chat", !.thread = t, !.message = message,
                              !.pc = EntryPoint(checkpoint_next[config_for_thread(t)]),
                              !.nr = message]
    /\ hist' = Interleave(hist, t)
    /\ UNCHANGED <<env, values, checkpoint_next, resumes, response>>

\* An invocation that goes on to the next node after an interrupt event.
AfterInterruptContinue(r) == [r EXCEPT !.pc = Edge(r.pc), !.steps = @ + 1]

\* The invocation after an interrupt event: the handler returns inside the loop.
AfterInterrupt(r) == RunIdle

\* The executions open to the scheduled node of the running invocation.
Outcomes ==
    NodeRun(run.pc, values[config_for_thread(run.thread)],
            resumes[config_for_thread(run.thread)], run.nr)

\* One super-step in which the node returns and its router (if any) gives a key.
StepReturn ==
    /\ run.active /\ run.pc \in Nodes /\ run.steps < RecursionLimit
    /\ \E out \in Outcomes : \E r \in Routes(run.pc, out.state) :
        /\ out.kind = "return" /\ r.next # RAISE
        /\ values' = [values EXCEPT ![config_for_thread(run.thread)] = out.state]
        /\ checkpoint_next' = [checkpoint_next EXCEPT ![config_for_thread(run.thread)] = r.next]
        /\ resumes' = [resumes EXCEPT ![config_for_thread(run.thread)] = <<>>]
        /\ run' = [run EXCEPT !.pc = r.next, !.nr = NONE, !.steps = @ + 1,
                              !.last_state = out.state, !.has_last = TRUE,
                              !.prev_node = run.pc, !.prev_calls = out.calls,
                              !.prev_key = r.key]
        /\ hist' = [hist EXCEPT ![run.thread] =
                        [Observe(@, out) EXCEPT !.suspended_at = NONE, !.susp_payload = NoPayload,
                                                !.interleaved = FALSE]]
    /\ UNCHANGED <<env, response, invocations>>

\* The node calls interrupt() without a resume value: the handler answers.
StepInterrupt ==
    /\ run.active /\ run.pc \in Nodes /\ run.steps < RecursionLimit
    /\ \E out \in Outcomes :
        /\ out.kind = "interrupt"
        /\ resumes' = [resumes EXCEPT ![config_for_thread(run.thread)] = out.rs]
        /\ response' = [response EXCEPT ![run.thread] =
                            IF run.kind = "init" THEN InitResponse(run.thread, run.last_state)
                            ELSE InterruptResponse(run.thread, run.message, out.payload,
                                                   run.last_state, run.has_last)]
        /\ run' = AfterInterrupt([run EXCEPT !.susp = @ + 1, !.prev_node = run.pc,
                                             !.prev_calls = out.calls])
        /\ hist' = [hist EXCEPT ![run.thread] =
                        [Observe(@, out) EXCEPT !.suspended_at = run.pc,
                                                !.susp_payload = out.payload,
                                                !.interleaved = FALSE]]
    /\ UNCHANGED <<env, values, checkpoint_next, invocations>>

\* The node or its router raises: the exception leaves graph.stream and the handler.
StepRaise ==
    /\ run.active /\ run.pc \in Nodes /\ run.steps < RecursionLimit
    /\ \E out \in Outcomes :
        /\ \/ out.kind = "raise"
           \/ out.kind = "return" /\ RAISE \in Successors(run.pc, out.state)
        /\ response' = [response EXCEPT ![run.thread] =
                            ServerError(run.thread, IF out.kind = "raise" THEN "node" ELSE "router")]
        /\ run' = RunIdle
        /\ hist' = [hist EXCEPT ![run.thread] = Observe(@, out)]
    /\ UNCHANGED <<env, values, checkpoint_next, resumes, invocations>>

\* recursion_limit super-steps ran without a stop: GraphRecursionError.
RecursionError ==
    /\ run.active /\ run.pc \in Nodes /\ run.steps >= RecursionLimit
    /\ response' = [response EXCEPT ![run.thread] = ServerError(run.thread, "recursion")]
    /\ run' = RunIdle
    /\ UNCHANGED <<env, values, checkpoint_next, resumes, hist, invocations>>

\* graph.stream is exhausted: chat returns the "Completed" response
\* (init_conversation would call base_response without its stage argument).
StreamEnd ==
    /\ run.active /\ run.pc = END
    /\ response' = [response EXCEPT ![run.thread] =
                        IF run.kind = "init" THEN ServerError(run.thread, "handler")
                        ELSE CompletedResponse(run.thread, run.message, run.last_state, run.has_last)]
    /\ run' = RunIdle
    /\ UNCHANGED <<env, values, checkpoint_next, resumes, hist, invocations>>

Next ==
    \/ \E m \in env.members : InitConversation(m)
    \/ \E t \in env.threads, msg \in env.messages : Chat(t, msg)
    \/ StepReturn
    \/ StepInterrupt
    \/ StepRaise
    \/ RecursionError
    \/ StreamEnd

Spec == Init /\ [][Next]_vars

(***************************************************************************)
(* Properties                                                              *)
(***************************************************************************)
\* C1: a chat for a thread that waits in a node's interrupt starts at exactly
\* that node and has run no other node before it, whatever was served for
\* other threads in between.
C1_ResumeAtSuspendedStep ==
    (run.active /\ run.kind = "chat" /\ run.steps = 0
        /\ hist[run.thread].suspended_at # NONE)
    => (run.pc = hist[run.thread].suspended_at /\ run.prev_node = NONE)

\* A chat for t1 begins at the node t1 waits in, past the menu, after t2 was served.
C1_Witness ==
    /\ run.active /\ run.kind = "chat" /\ run.thread = "t1" /\ run.steps = 0
    /\ hist["t1"].suspended_at = "assign_pcp_ask_termination"
    /\ hist["t1"].interleaved
    /\ run.pc = "assign_pcp_ask_termination"

\* The stage the handlers show for an interrupt payload of stage st.
ShownStages(st) ==
    CASE st = "MENU" -> {"START", "MENU"}
      [] st = "SPECIALIST_COMPLETED" -> {"COMPLETED"}
      [] st = "RETURN_TO_MENU" -> {"START"}
      [] OTHER -> {st}

\* C2: an invocation runs nothing after an interrupt, so it has at most one;
\* the thread then waits at the interrupting node, and the response shows the
\* stage (and, where the prompt is the answer text, the prompt) of that interrupt.
C2_SuspensionEndsInvocation ==
    /\ run.active => run.susp = 0
    /\ \A t \in ThreadIds :
        hist[t].suspended_at # NONE =>
            /\ checkpoint_next[t] = hist[t].suspended_at
            /\ response[t].APIStatus = "success" =>
                /\ response[t].APISessionId = t
                /\ hist[t].susp_payload.stage # "WAIT_NEXT_FOLLOWUP"
                    => response[t].CurrentStage \in ShownStages(hist[t].susp_payload.stage)
                /\ hist[t].susp_payload.stage \in
                        {"WAIT_TERMINATION_REASON", "ASK_PROVIDER_INPUT", "SHOW_PROVIDER_LIST",
                         "ASK_NO_FLOW_FILTERS", "ASK_SPECIALIST_FILTERS", "PROVIDER_ID_ONLY_WARNING"}
                    => response[t].AIResponse = hist[t].susp_payload.prompt

\* A chat ran three nodes and was suspended by the third: the thread waits there.
C2_Witness ==
    /\ ~run.active
    /\ hist["t1"].suspended_at = "collect_knows_provider"
    /\ checkpoint_next["t1"] = "collect_knows_provider"
    /\ values["t1"].stage = "WAIT_TERMINATION_REASON"
    /\ response["t1"].CurrentStage = "ASK_KNOWS_PROVIDER"

\* C3: every invocation ends by an interrupt or at END; here: none ends by
\* running into the recursion limit.
C3_NoRecursionError ==
    \A t \in ThreadIds : response[t] # ServerError(t, "recursion")

C5_NoStepRaises ==
    \A t \in ThreadIds : response[t] # ServerError(t, "node")

\* C6: once the committed stage is ERROR the graph is at END for the thread.
C6_ErrorIsTerminal ==
    \A t \in ThreadIds : values[t].stage = "ERROR" => checkpoint_next[t] = END

\* The invocation has just run update_pcp.
AtUpdateEnd == run.active /\ run.prev_node = "update_pcp"

\* The position of the call (name, arg) in what update_pcp issued, 0 when not issued.
UpdateCall(name, arg) ==
    IF \E i \in 1..Len(run.prev_calls) : run.prev_calls[i].call = name /\ run.prev_calls[i].arg = arg
    THEN CHOOSE i \in 1..Len(run.prev_calls) :
            run.prev_calls[i].call = name /\ run.prev_calls[i].arg = arg
    ELSE 0

TerminateOk ==
    UpdateCall("call_execute_ex", "terminate") > 0
    /\ run.prev_calls[UpdateCall("call_execute_ex", "terminate")].result = "ok"

AddOk ==
    UpdateCall("call_execute_ex", "add") > 0
    /\ run.prev_calls[UpdateCall("call_execute_ex", "add")].result = "ok"

VerifyOk ==
    UpdateCall("get_active_pcp", "verify") > 0
    /\ run.prev_calls[UpdateCall("get_active_pcp", "verify")].result
            = Strip(Str(Or(values[run.thread].last_selected_provider_id, "")))

\* The member has no current provider to terminate, and none was terminated.
TerminateSkipped ==
    UpdateCall("call_execute_ex", "terminate") = 0
    /\ Strip(Or(values[run.thread].active_provider_id, "")) = ""

\* The verification read is issued only after the add write succeeded.
VerifyAfterAdd ==
    UpdateCall("get_active_pcp", "verify") > 0 =>
        AddOk /\ UpdateCall("call_execute_ex", "add") < UpdateCall("get_active_pcp", "verify")

\* C7 as stated: the add write is issued only after a terminate write
\* succeeded in the same execution, the verification read only after the add.
C7_AddOnlyAfterTerminate ==
    AtUpdateEnd =>
        /\ UpdateCall("call_execute_ex", "add") > 0 =>
            TerminateOk /\ UpdateCall("call_execute_ex", "terminate") < UpdateCall("call_execute_ex", "add")
        /\ VerifyAfterAdd

\* C7 amended: the add write is issued only after the terminate write
\* succeeded or was skipped because the member has no current provider id;
\* the verification read is issued only after the add write succeeded.
C7_AddAfterTerminateOrSkip ==
    AtUpdateEnd =>
        /\ UpdateCall("call_execute_ex", "add") > 0 =>
            \/ TerminateOk /\ UpdateCall("call_execute_ex", "terminate") < UpdateCall("call_execute_ex", "add")
            \/ TerminateSkipped
        /\ VerifyAfterAdd

\* update_pcp issued terminate, add and the verification read, in this order.
C7_Witness ==
    /\ AtUpdateEnd /\ TerminateOk /\ AddOk
    /\ UpdateCall("call_execute_ex", "terminate") = 1
    /\ UpdateCall("call_execute_ex", "add") = 2
    /\ UpdateCall("get_active_pcp", "verify") = 3

\* A call of update_pcp raised, or the verification read another provider id.
UpdateFailed ==
    \/ \E i \in 1..Len(run.prev_calls) : run.prev_calls[i].result = RAISE
    \/ UpdateCall("get_active_pcp", "verify") > 0 /\ ~VerifyOk

UpdateFailureIsError ==
    UpdateFailed =>
        /\ values[run.thread].stage = "ERROR"
        /\ values[run.thread].ai_response_code = 500
        /\ run.pc = END /\ checkpoint_next[run.thread] = END

\* C8 as stated: a failed terminate, a failed add or a mismatching verification
\* end the traversal at END with stage ERROR and code 500, and the stage is
\* COMPLETED only when terminate, add and verification all succeeded.
C8_CompletedOnlyAfterAllThree ==
    AtUpdateEnd =>
        /\ UpdateFailureIsError
        /\ values[run.thread].stage = "COMPLETED" => TerminateOk /\ AddOk /\ VerifyOk

\* C8 amended: the same failures end at END with ERROR and 500, and the stage
\* is COMPLETED only when add and verification succeeded and terminate either
\* succeeded or was skipped because the member has no current provider id.
C8_CompletedOnlyAfterWrites ==
    AtUpdateEnd =>
        /\ UpdateFailureIsError
        /\ values[run.thread].stage = "COMPLETED" =>
                (TerminateOk \/ TerminateSkipped) /\ AddOk /\ VerifyOk

\* Both writes succeeded and the verification read returned another provider id.
C8_Witness ==
    /\ AtUpdateEnd /\ TerminateOk /\ AddOk
    /\ UpdateCall("get_active_pcp", "verify") > 0 /\ ~VerifyOk
    /\ run.prev_calls[UpdateCall("get_active_pcp", "verify")].result # RAISE
    /\ values[run.thread].stage = "ERROR"

\* C9: in one traversal the terminate write and the add write are each issued
\* at most once.
C9_WritesAtMostOnce ==
    \A t \in ThreadIds : hist[t].terminates <= 1 /\ hist[t].adds <= 1

\* The terminate write succeeded, the add write failed, and the conversation ended with ERROR.
C9_Witness ==
    /\ ~run.active
    /\ hist["t1"].terminates = 1 /\ hist["t1"].adds = 1
    /\ values["t1"].stage = "ERROR" /\ checkpoint_next["t1"] = END
    /\ response["t1"].CurrentStage = "ERROR"

\* C10: every evaluation of a router gives a key of its path_map.
C10_RouterTotal ==
    \A t \in ThreadIds : response[t] # ServerError(t, "router")

\* The captured facts and results of a state.
CapturedFacts(s) ==
    <<s.termination_reason, s.knows_provider, s.raw_provider_input, s.raw_filter_input,
      s.providers_result, s.last_selected_provider_id>>

\* C11: when the menu router gives unsupported (as it does for an empty or
\* blank menu message) the graph goes from start to END, and the start
\* execution leaves the captured facts and results as they were.
C11_UnsupportedEndsUnchanged ==
    /\ [](run.active /\ run.prev_node = "start" =>
            /\ Strip(Lower(Or(values[run.thread].csr_query, ""))) = "" => run.prev_key = "unsupported"
            /\ run.prev_key = "unsupported" =>
                    run.pc = END /\ checkpoint_next[run.thread] = END)
    /\ [][(run.active /\ run.pc = "start" /\ run'.active /\ run'.prev_key = "unsupported")
            => CapturedFacts(values'[run.thread]) = CapturedFacts(values[run.thread])]_vars

\* A blank menu message was routed as unsupported and the graph is at END.
C11_Witness ==
    /\ run.active /\ run.prev_node = "start" /\ run.prev_key = "unsupported"
    /\ run.message = " " /\ run.pc = END
    /\ CapturedFacts(values[run.thread]) = CapturedFacts(NoState)

(***************************************************************************)
(* The search nodes applied to given states                                *)
(***************************************************************************)
SearchNodes == {"run_provider_search", "run_specialist_generic_search"}

\* States a search node can be called with: with and without a provider list,
\* in either flow, with and without the member's group.
SearchStates ==
    { [InitialState("M1") EXCEPT !.providers_result = pl, !.knows_provider = k,
                                 !.raw_provider_input = rp, !.group_id = g, !.subscriber_id = g,
                                 !.csr_query = q, !.specialist_service_specialty = rp,
                                 !.stage = IF pl = <<>> THEN "ASK_PROVIDER_INPUT" ELSE "SHOW_PROVIDER_LIST"]
      : pl \in ProviderLists \cup {<<"p1", "p2">>}, k \in {"True", "False"},
        rp \in {"p1", NONE}, g \in {"G1", ""}, q \in {"", "Yes"} }

\* A chat is about to run a search node on one of these states.
InitSearch ==
    /\ env = [threads |-> {"t1"}, messages |-> Messages, members |-> MemberIds, cap |-> 0,
              script |-> <<>>, lists |-> ProviderLists]
    /\ \E s \in SearchStates, n \in SearchNodes, m \in Messages :
        /\ values = [t \in ThreadIds |-> IF t = "t1" THEN s ELSE NoState]
        /\ checkpoint_next = [t \in ThreadIds |-> IF t = "t1" THEN n ELSE "none"]
        /\ run = [RunIdle EXCEPT !.active = TRUE, !.kind = "chat", !.thread = "t1",
                                 !.message = m, !.pc = n, !.nr = m]
    /\ resumes = [t \in ThreadIds |-> <<>>]
    /\ response = [t \in ThreadIds |-> NoResponse]
    /\ hist = [t \in ThreadIds |-> HistInit]
    /\ invocations = 0

\* The invocation runs to its end.
NextSearch ==
    \/ StepReturn
    \/ StepInterrupt
    \/ StepRaise
    \/ StreamEnd

SpecSearch == InitSearch /\ [][NextSearch]_vars

\* C12: a search node executed on a state whose providers_result is populated
\* returns that state unchanged and makes no collaborator call.
C12_SearchIdempotent ==
    [][(run.active /\ run.pc \in SearchNodes
            /\ values[run.thread].providers_result # <<>>)
        => /\ values' = values
           /\ run'.active /\ run'.prev_node = run.pc /\ run'.prev_calls = <<>>
           /\ hist' = hist /\ response' = response]_vars

\* run_provider_search has just returned a state that already held a provider list.
C12_Witness ==
    /\ run.active /\ run.steps = 1 /\ run.prev_node = "run_provider_search"
    /\ run.prev_calls = <<>>
    /\ values["t1"].providers_result = <<"p1", "p2">>
    /\ values["t1"] \in SearchStates

\* C13: when return_to_menu has taken the user's next menu choice, the traversal
\* re-enters start, where the menu router routes the choice.
C13_MenuChoiceReentersStart ==
    run.active /\ run.prev_node = "return_to_menu" => run.pc = "start"

\* The step in which specialist_provider_address returns.
AddressStep ==
    /\ run.active /\ run.pc = "specialist_provider_address"
    /\ run'.active /\ run'.prev_node = "specialist_provider_address"
    /\ run'.steps = run.steps + 1

\* C14: specialist_post_completion is entered only when specialist_provider_address
\* returns a completed address inquiry (stage COMPLETED, the address of a listed
\* provider) that the thread was suspended with as SPECIALIST_COMPLETED; every other
\* return of specialist_provider_address leads back to specialist_provider_address.
C14_PostCompletionOnlyAfterCompleted ==
    [][AddressStep =>
         LET s == values'[run.thread] IN
         /\ run'.pc = "specialist_post_completion" <=> s.stage = "COMPLETED"
         /\ run'.pc = "specialist_post_completion" =>
                /\ \E pid \in ProviderIds :
                      InSeq(pid, s.providers_result) /\ s.ai_response = AddressJson(pid)
                /\ hist[run.thread].susp_payload.stage = "SPECIALIST_COMPLETED"
         /\ run'.pc # "specialist_post_completion" => run'.pc = "specialist_provider_address"]_vars

\* C15: after specialist_post_completion the router gives "end" exactly when the
\* answer was classified as no (stage CLOSED), and the traversal is then at END;
\* for yes or an unclassifiable answer it gives "menu" and the traversal is at
\* return_to_menu.
C15_EndExactlyOnNo ==
    run.active /\ run.prev_node = "specialist_post_completion" =>
        LET ans == run.prev_calls[1].result
            s == values[run.thread]
        IN  /\ run.prev_key \in {"end", "menu"}
            /\ run.prev_key = "end" <=> ans = "no"
            /\ ans = "no" <=> s.stage = "CLOSED"
            /\ run.prev_key = "end" => run.pc = END /\ checkpoint_next[run.thread] = END
            /\ run.prev_key = "menu" =>
                    /\ ans \in {"yes", "unknown"} /\ s.stage = "GO_MENU"
                    /\ run.pc = "return_to_menu"

\* An unclassifiable answer has just sent the traversal to return_to_menu.
C15_Witness ==
    /\ run.active /\ run.prev_node = "specialist_post_completion"
    /\ run.prev_calls[1].result = "unknown" /\ run.prev_key = "menu"
    /\ run.pc = "return_to_menu"

\* A declined offer has just ended the traversal.
C15_WitnessNo ==
    /\ run.active /\ run.prev_node = "specialist_post_completion"
    /\ run.prev_calls[1].result = "no" /\ run.prev_key = "end" /\ run.pc = END

Serving(t) ==
    \/ run.active /\ run.thread = t
    \/ ~run.active /\ run'.active /\ run'.thread = t

\* C17: a thread's state, next step and pending resume values change only in a
\* step of an invocation for that thread id; whatever is done for other threads,
\* a thread suspended in an interrupt stays suspended at the same step.
C17_ThreadsIndependent ==
    [][\A t \in ThreadIds :
          ~Serving(t) =>
              /\ values'[t] = values[t]
              /\ checkpoint_next'[t] = checkpoint_next[t]
              /\ resumes'[t] = resumes[t]
              /\ hist'[t].suspended_at = hist[t].suspended_at
              /\ hist'[t].susp_payload = hist[t].susp_payload]_vars

\* Thread t1 waits at the menu while an invocation for t2 has advanced t2.
C17_Witness ==
    /\ hist["t1"].suspended_at = "start" /\ hist["t1"].interleaved
    /\ checkpoint_next["t1"] = "start"
    /\ run.active /\ run.thread = "t2" /\ run.kind = "chat" /\ run.steps >= 1
    /\ checkpoint_next["t2"] # "start"

\* The chat message "Assign PCP" on a freshly initialised thread has been taken by
\* start and classified assign_pcp.
AssignPcpChosen ==
    /\ run.active /\ run.kind = "chat" /\ run.message = "Assign PCP"
    /\ run.steps = 1 /\ run.prev_node = "start" /\ run.prev_key = "assign_pcp"
    /\ run.pc = "assign_pcp_ask_termination"

\* The response of C18 on thread t, suspended at assign_pcp_ask_termination.
TerminationReasonAsked(t, resp, next, h) ==
    /\ resp[t].CurrentStage = "WAIT_TERMINATION_REASON"
    /\ resp[t].AIResponseCode = 112
    /\ resp[t].CSRQuery = "Assign PCP"
    /\ next[t] = "assign_pcp_ask_termination"
    /\ h[t].suspended_at = "assign_pcp_ask_termination"

\* C18: on a freshly initialised thread the chat message "Assign PCP", classified
\* assign_pcp, is answered with CurrentStage WAIT_TERMINATION_REASON, code 112 and
\* CSRQuery "Assign PCP", the thread suspended at assign_pcp_ask_termination,
\* whenever the member and active-PCP lookups succeed and the question is written;
\* otherwise the member id is blank or a lookup failed (stage ERROR, code 500), or
\* call_horizon raised.
C18_AssignPcpAsksTermination ==
    [][AssignPcpChosen =>
         LET t == run.thread IN
         \/ ~run'.active /\ TerminationReasonAsked(t, response', checkpoint_next', hist')
         \/ /\ run'.active /\ run'.prev_node = "assign_pcp_ask_termination"
            /\ values'[t].stage = "ERROR" /\ values'[t].ai_response_code = 500
         \/ ~run'.active /\ response'[t] = ServerError(t, "node")]_vars

\* The thread has just been asked for the termination reason.
C18_Witness ==
    /\ ~run.active /\ TerminationReasonAsked("t1", response, checkpoint_next, hist)
    /\ values["t1"].termination_reason = NONE
    /\ values["t1"].csr_query = "Assign PCP"

\* The response to message m on thread t: an interrupt at node n shown as stage.
Answered(t, m, n, stage) ==
    /\ ~run'.active
    /\ response'[t].APIStatus = "success" /\ response'[t].CurrentStage = stage
    /\ response'[t].CSRQuery = m
    /\ hist'[t].suspended_at = n /\ checkpoint_next'[t] = n

\* A collaborator raised in the step: the handler gives no response of its own.
Unanswered(t) == ~run'.active /\ response'[t] = ServerError(t, "node")

\* On the thread that was asked for the termination reason after the menu choice
\* "Assign PCP" and gave it, the provider id sent next has been taken by
\* collect_knows_provider.
ProviderIdAfterReason ==
    /\ run.active /\ run.kind = "chat" /\ run.message = "12345678"
    /\ run.steps = 1 /\ run.prev_node = "collect_knows_provider"
    /\ values[run.thread].termination_reason = "new PCP"
    /\ values[run.thread].active_provider_id # NONE
    /\ values[run.thread].initial_assign_text = ""
    /\ values[run.thread].csr_query = "12345678"

ListShown(t, p) ==
    /\ response[t].CurrentStage = "SHOW_PROVIDER_LIST"
    /\ response[t].AIResponse = ProvidersJson(<<p>>)

\* In the chat that follows a response, provider_interaction has classified the
\* message as a request for the address of provider p.
AddressRequested(p) ==
    /\ run.active /\ run.kind = "chat" /\ run.prev_node = "provider_interaction"
    /\ Len(run.prev_calls) = 3
    /\ run.prev_calls[1].call = "llm_decide_followup_action"
    /\ run.prev_calls[1].arg = run.message /\ run.prev_calls[1].result = "address"
    /\ run.prev_calls[2].result = p

\* The chat ends with the address of provider p as AIResponse, the thread suspended
\* at wait_next_followup.
AddressAnswered(t, p) ==
    /\ ~run'.active
    /\ response'[t].AIResponse = AddressJson(p)
    /\ hist'[t].suspended_at = "wait_next_followup"
    /\ checkpoint_next'[t] = "wait_next_followup"

\* C20: after a provider list was shown in the PCP flow, a message classified as
\* an address request for a provider id of that list is answered with the
\* providerAddress JSON of exactly that provider, and the thread is suspended
\* at wait_next_followup.
C20_AddressOfListedProvider ==
    [][\A p \in ProviderIds :
          AddressRequested(p) /\ ListShown(run.thread, p) => AddressAnswered(run.thread, p)]_vars

\* The running invocation executes specialist_ask_service, which has no resume
\* value to take, and the handler answers the suspension.
ServiceAsked ==
    /\ run.active /\ run.kind = "chat" /\ run.pc = "specialist_ask_service"
    /\ ~run'.active /\ response'[run.thread].APIStatus = "success"

\* C21: whatever text the LLM returns for the turn, specialist_ask_service
\* suspends with the configured service question as its prompt, and the response
\* carries that question verbatim as AIResponse (stage ASK_SPECIALIST_SERVICE,
\* code 109, type AURA, no prompts).
C21_ServiceQuestionVerbatim ==
    /\ [][ServiceAsked =>
            LET t == run.thread IN
            /\ hist'[t].suspended_at = "specialist_ask_service"
            /\ hist'[t].susp_payload.prompt = SPECIALIST_SERVICE_QUESTION
            /\ response'[t].AIResponse = SPECIALIST_SERVICE_QUESTION
            /\ response'[t].CurrentStage = "ASK_SPECIALIST_SERVICE"
            /\ response'[t].AIResponseCode = 109 /\ response'[t].AIResponseType = "AURA"
            /\ response'[t].Prompts = <<>>]_vars
    /\ [](run.active /\ run.pc = "specialist_ask_service" =>
            \A out \in Outcomes :
                out.kind = "interrupt" => out.payload.prompt = SPECIALIST_SERVICE_QUESTION)

\* A thread waits in specialist_ask_service, answered with the service question,
\* and the LLM may return another text for the turn.
C21_Witness ==
    /\ ~run.active /\ hist["t1"].suspended_at = "specialist_ask_service"
    /\ hist["t1"].susp_payload.prompt = SPECIALIST_SERVICE_QUESTION
    /\ response["t1"].CurrentStage = "ASK_SPECIALIST_SERVICE"
    /\ response["t1"].AIResponse = SPECIALIST_SERVICE_QUESTION
    /\ \E reply \in EchoTexts(SPECIALIST_SERVICE_QUESTION) : reply # SPECIALIST_SERVICE_QUESTION

\* The running invocation executes node n, which has no resume value to take, and
\* the handler answers the suspension.
FiltersAsked(n) ==
    /\ run.active /\ run.kind = "chat" /\ run.pc = n
    /\ ~run'.active /\ response'[run.thread].APIStatus = "success"
    /\ hist'[run.thread].suspended_at = n

\* SPECIALIST_FILTERS_TEMPLATE with only its token replaced by a looked-up radius.
FilledTemplates ==
    { ReplaceToken(SPECIALIST_FILTERS_TEMPLATE, "<<default_distance>>", d) : d \in Radii }

\* C22, as stated: both specialist_ask_filters and collect_no_flow_filters suspend
\* with an AIResponse equal to SPECIALIST_FILTERS_TEMPLATE in which only the
\* default-distance token is replaced by the looked-up radius.
C22_BothEmitTheTemplate ==
    [][\A n \in {"specialist_ask_filters", "collect_no_flow_filters"} :
          FiltersAsked(n) => response'[run.thread].AIResponse \in FilledTemplates]_vars

\* C22, amended: specialist_ask_filters suspends with SPECIALIST_FILTERS_TEMPLATE
\* in which only the token is replaced by the looked-up radius, whatever the LLM
\* returns (stage ASK_SPECIALIST_FILTERS, 103/Dialog); collect_no_flow_filters
\* suspends with its own fixed question block with the looked-up radius inserted
\* (stage ASK_NO_FLOW_FILTERS, 103/Dialog), a text that has none of the template's
\* line breaks and so is not the filled template.
C22_EachEmitsItsFixedText ==
    /\ [][FiltersAsked("specialist_ask_filters") =>
            LET t == run.thread IN
            /\ response'[t].AIResponse \in FilledTemplates
            /\ hist'[t].susp_payload.prompt = response'[t].AIResponse
            /\ response'[t].CurrentStage = "ASK_SPECIALIST_FILTERS"
            /\ response'[t].AIResponseCode = 103 /\ response'[t].AIResponseType = "Dialog"]_vars
    /\ [][FiltersAsked("collect_no_flow_filters") =>
            LET t == run.thread IN
            /\ response'[t].AIResponse \in { NoFlowFiltersHtml(d) : d \in Radii }
            /\ response'[t].AIResponse \notin FilledTemplates
            /\ hist'[t].susp_payload.prompt = response'[t].AIResponse
            /\ response'[t].CurrentStage = "ASK_NO_FLOW_FILTERS"
            /\ response'[t].AIResponseCode = 103 /\ response'[t].AIResponseType = "Dialog"]_vars
    /\ [](run.active /\ run.pc = "specialist_ask_filters" =>
            \A out \in Outcomes :
                out.kind = "interrupt" => out.payload.prompt \in FilledTemplates)

\* A thread waits in specialist_ask_filters, answered with the filled template for
\* the radius 50.
C22_Witness ==
    /\ ~run.active /\ hist["t1"].suspended_at = "specialist_ask_filters"
    /\ response["t1"].CurrentStage = "ASK_SPECIALIST_FILTERS"
    /\ response["t1"].AIResponse = ReplaceToken(SPECIALIST_FILTERS_TEMPLATE, "<<default_distance>>", "50")

\* A thread waits in collect_no_flow_filters, answered with the question block.
C22_WitnessNoFlow ==
    /\ ~run.active /\ hist["t1"].suspended_at = "collect_no_flow_filters"
    /\ response["t1"].CurrentStage = "ASK_NO_FLOW_FILTERS"
    /\ response["t1"].AIResponse = NoFlowFiltersHtml("25")

SearchCollaborators ==
    {"provider_search_by_id", "provider_search_by_name", "provider_generic_search"}

\* The positions of the search calls among the calls of an execution.
SearchCallsOf(out) ==
    { i \in 1..Len(out.calls) : out.calls[i].call \in SearchCollaborators }

\* The search type the execution's classification gave, NONE when it gave none of
\* the schema's or when the execution did not classify.
ClassifiedAs(out) ==
    IF out.calls # <<>> /\ out.calls[1].call = "llm_parse_provider_input"
    THEN out.calls[1].result
    ELSE NONE

\* C23: an execution of run_provider_search that searches calls exactly one search
\* collaborator: the by-id search only when the search type was classified id,
\* the by-name search when name_city_state, the generic search when zip_only or
\* when knows_provider is false; a search that answered is followed by the
\* suspension (or, on the resume, the stored state) of SHOW_PROVIDER_LIST with the
\* providers JSON.
C23_OneSearchByClassification ==
    run.active /\ run.pc = "run_provider_search" =>
        \A out \in Outcomes :
            SearchCallsOf(out) # {} =>
                LET s == values[run.thread]
                    c == out.calls[CHOOSE i \in SearchCallsOf(out) : TRUE]
                IN  /\ Cardinality(SearchCallsOf(out)) = 1
                    /\ c.call = "provider_search_by_id" =>
                            s.knows_provider = "True" /\ ClassifiedAs(out) = "id"
                    /\ c.call = "provider_search_by_name" =>
                            s.knows_provider = "True" /\ ClassifiedAs(out) = "name_city_state"
                    /\ c.call = "provider_generic_search" =>
                            s.knows_provider # "True" \/ ClassifiedAs(out) = "zip_only"
                    /\ c.result # RAISE =>
                            \/ /\ out.kind = "interrupt"
                               /\ out.payload.stage = "SHOW_PROVIDER_LIST"
                               /\ \E pl \in SearchResults : out.payload.prompt = ProvidersJson(pl)
                            \/ /\ out.kind = "return"
                               /\ out.state.stage = "SHOW_PROVIDER_LIST"
                               /\ out.state.ai_response = ProvidersJson(out.state.providers_result)

\* The node execution just before classified the follow-up message, and the LLM's
\* reply could not be parsed.
FollowupUnparseable ==
    /\ run.active /\ run.prev_node \in {"provider_interaction", "specialist_provider_address"}
    /\ run.prev_calls # <<>>
    /\ run.prev_calls[1].call = "llm_decide_followup_action"
    /\ run.prev_calls[Len(run.prev_calls)] = JsonLoads([ok |-> FALSE])

\* The router of the node executed just before gave key.
DefaultTaken(node, key) ==
    run.active /\ run.prev_node = node /\ run.prev_key = key

\* C24: an LLM classification that cannot be parsed or lies outside its schema
\* gives the conservative default and the turn does not fail: a menu intent
\* becomes unsupported and the traversal ends, a follow-up action becomes other
\* (the loop goes on, update_pcp is not scheduled, the invocation does not end in
\* an error of the graph), a yes/no answer becomes unknown.
C24_UnparseableTakesDefault ==
    /\ \A raw \in MenuIntentsRaw :
            (~raw.ok \/ raw.v \notin {"assign_pcp", "specialist", "unsupported"})
                => llm_route_menu_intent(raw) = "unsupported"
    /\ \A raw \in FollowupRaw : ~raw.ok => llm_decide_followup_action(raw).action = "other"
    /\ [](DefaultTaken("start", "unsupported") => run.pc = END)
    /\ [](FollowupUnparseable =>
            /\ run.prev_calls[1].result = "other"
            /\ run.prev_key = "loop" /\ run.pc # "update_pcp")
    /\ [][FollowupUnparseable =>
            ~(~run'.active /\ response'[run.thread] = ServerError(run.thread, "recursion"))]_vars

\* C25: every response whose CurrentStage is ERROR carries AIResponseCode 500 and
\* AIResponseType AURA or Dialog.
C25_ErrorCarries500 ==
    \A t \in ThreadIds :
        response[t].APIStatus = "success" /\ response[t].CurrentStage = "ERROR" =>
            /\ response[t].AIResponseCode = 500
            /\ response[t].AIResponseType \in {"AURA", "Dialog"}

\* C26: every response whose CurrentStage is COMPLETED, after a completed PCP
\* assignment or after a completed specialist address inquiry, carries
\* AIResponseCode 110 and AIResponseType AURA.
C26_CompletedCarries110 ==
    \A t \in ThreadIds :
        response[t].APIStatus = "success" /\ response[t].CurrentStage = "COMPLETED" =>
            /\ response[t].AIResponseCode = 110
            /\ response[t].AIResponseType = "AURA"

\* The (code, type) pair fixed for a suspension stage.
FixedPair(stage) ==
    CASE stage = "WAIT_TERMINATION_REASON" -> <<112, "AURA">>
      [] stage = "ASK_KNOWS_PROVIDER" -> <<101, "AURA">>
      [] stage = "ASK_PROVIDER_INPUT" -> <<103, "Dialog">>
      [] stage = "SHOW_PROVIDER_LIST" -> <<107, "AURA">>
      [] stage = "ASK_SPECIALIST_SERVICE" -> <<109, "AURA">>
      [] stage = "ASK_SPECIALIST_FILTERS" -> <<103, "Dialog">>
      [] stage = "ASK_NO_FLOW_FILTERS" -> <<103, "Dialog">>

FixedPairStages ==
    {"WAIT_TERMINATION_REASON", "ASK_KNOWS_PROVIDER", "ASK_PROVIDER_INPUT", "SHOW_PROVIDER_LIST",
     "ASK_SPECIALIST_SERVICE", "ASK_SPECIALIST_FILTERS", "ASK_NO_FLOW_FILTERS"}

\* C27: a response whose CurrentStage is one of the seven suspension stages
\* carries the (code, type) pair fixed for that stage, and for ASK_KNOWS_PROVIDER
\* the Prompts Yes, No.
C27_FixedCodeAndType ==
    \A t \in ThreadIds :
        response[t].APIStatus = "success" /\ response[t].CurrentStage \in FixedPairStages =>
            /\ <<response[t].AIResponseCode, response[t].AIResponseType>>
                    = FixedPair(response[t].CurrentStage)
            /\ response[t].CurrentStage = "ASK_KNOWS_PROVIDER" => response[t].Prompts = <<"Yes", "No">>

\* The yes/no question was answered with 101/AURA and the prompts Yes, No while the
\* state holds the code an earlier step stored.
C27_Witness ==
    /\ ~run.active /\ hist["t1"].suspended_at = "collect_knows_provider"
    /\ response["t1"].CurrentStage = "ASK_KNOWS_PROVIDER"
    /\ response["t1"].AIResponseCode = 101 /\ response["t1"].Prompts = <<"Yes", "No">>
    /\ values["t1"].ai_response_code # 101

\* The handler of a chat request returns its response in this step.
ChatAnswered ==
    /\ run.active /\ run.kind = "chat" /\ ~run'.active
    /\ response'[run.thread].APIStatus = "success"

\* C28: every response of chat, returned on a suspension of any stage or after the
\* traversal ended, carries the request's thread_id as APISessionId and the
\* request's message as CSRQuery; no other thread's response changes.
C28_EchoesThreadAndMessage ==
    [][ChatAnswered =>
          /\ response'[run.thread].APISessionId = run.thread
          /\ response'[run.thread].CSRQuery = run.message
          /\ \A u \in ThreadIds \ {run.thread} : response'[u] = response[u]]_vars

\* Both threads were answered, t2 last, on a suspension; and a traversal that
\* ended was answered with the message that ended it.
C28_Witness ==
    /\ ~run.active
    /\ response["t1"].APIStatus = "success" /\ response["t1"].APISessionId = "t1"
    /\ response["t2"].APIStatus = "success" /\ response["t2"].APISessionId = "t2"
    /\ response["t2"].CSRQuery = "Yes" /\ hist["t2"].suspended_at # NONE
    /\ response["t2"].CurrentStage \notin {"START", "MENU"}

C28_WitnessCompleted ==
    /\ ~run.active /\ checkpoint_next["t1"] = END
    /\ response["t1"].APIStatus = "success" /\ response["t1"].APISessionId = "t1"
    /\ response["t1"].CSRQuery = "Assign PCP" /\ response["t1"].CurrentStage = "COMPLETED"

\* The stages nodes suspend with for which chat has no branch of its own.
UnmappedStages == {"MENU", "PROVIDER_ACTION", "WAIT_SPECIALIST_PROVIDER_ACTION", "ASK_FILTERS"}

\* A chat invocation is answered in this step on a suspension with such a stage.
UnmappedSuspension ==
    /\ run.active /\ run.kind = "chat" /\ run.pc \in Nodes /\ ~run'.active
    /\ response'[run.thread].APIStatus = "success"
    /\ hist'[run.thread].suspended_at = run.pc
    /\ hist'[run.thread].susp_payload.stage \in UnmappedStages

\* C29: a suspension with a stage chat has no branch for is still answered: the
\* response has the suspension's stage as CurrentStage, and its AIResponse,
\* Prompts, PromptTitle, AIResponseCode and AIResponseType are those of the
\* thread's state as the last step left it.
C29_UnmappedStageFromLastState ==
    [][UnmappedSuspension =>
          LET r == response'[run.thread]
              s == values[run.thread]
          IN  /\ run.has_last /\ run.last_state = s
              /\ r.CurrentStage = hist'[run.thread].susp_payload.stage
              /\ r.AIResponse = s.ai_response
              /\ r.Prompts = s.prompts
              /\ r.PromptTitle = s.prompt_title
              /\ r.AIResponseCode = s.ai_response_code
              /\ r.AIResponseType = s.ai_response_type]_vars

\* A chat turn was answered on provider_interaction's PROVIDER_ACTION suspension
\* with the fields the search step left in the state.
C29_Witness ==
    /\ ~run.active /\ hist["t1"].suspended_at = "provider_interaction"
    /\ hist["t1"].susp_payload.stage = "PROVIDER_ACTION"
    /\ response["t1"].APIStatus = "success" /\ response["t1"].CurrentStage = "PROVIDER_ACTION"
    /\ response["t1"].AIResponse = values["t1"].ai_response
    /\ response["t1"].AIResponseCode = values["t1"].ai_response_code

\* A chat turn was answered on a WAIT_SPECIALIST_PROVIDER_ACTION suspension.
C29_WitnessSpecialist ==
    /\ ~run.active /\ hist["t1"].susp_payload.stage = "WAIT_SPECIALIST_PROVIDER_ACTION"
    /\ response["t1"].APIStatus = "success"
    /\ response["t1"].CurrentStage = "WAIT_SPECIALIST_PROVIDER_ACTION"

\* The menu response of init-conversation for thread t.
MenuResponse(t, resp) ==
    /\ resp[t].APIStatus = "success" /\ resp[t].APISessionId = t
    /\ resp[t].CurrentStage = "START"
    /\ resp[t].AIResponseCode = 101 /\ resp[t].AIResponseType = "AURA"
    /\ resp[t].Prompts = DEFAULT_PROMPTS /\ resp[t].CSRQuery = "" /\ resp[t].AIResponse = ""

\* C30: init-conversation with a non-empty member_id starts a thread that did not
\* exist, with the initial state for the stripped member id, and runs the graph
\* from start; the invocation ends in start's first suspension and the response
\* is CurrentStage START, code 101, type AURA, the three default menu prompts and
\* an empty CSRQuery (the stage MENU, code 100 and type Dialog start assigns are
\* not shown), unless call_horizon raises in start.
C30_InitAnswersMenu ==
    /\ [][(~run.active /\ run'.active /\ run'.kind = "init") =>
            LET t == run'.thread IN
            /\ checkpoint_next[t] = "none" /\ run'.pc = "start" /\ checkpoint_next'[t] = "start"
            /\ \E m \in env.members : Truthy(m) /\ values'[t] = InitialState(m)]_vars
    /\ [][(run.active /\ run.kind = "init" /\ ~run'.active) =>
            LET t == run.thread IN
            \/ /\ MenuResponse(t, response')
               /\ run.pc = "start" /\ run.steps = 0
               /\ hist'[t].suspended_at = "start" /\ hist'[t].susp_payload.stage = "MENU"
               /\ checkpoint_next'[t] = "start" /\ values'[t] = values[t]
            \/ response'[t] = ServerError(t, "node")]_vars

\* A new thread waits at the menu, answered with START / 101 / AURA, and its state
\* holds none of what start assigns.
C30_Witness ==
    /\ ~run.active /\ MenuResponse("t1", response)
    /\ hist["t1"].suspended_at = "start" /\ checkpoint_next["t1"] = "start"
    /\ values["t1"] = InitialState("M1") /\ values["t1"].stage = ""

\* The member identity fields of a state.
MemberIdentity(s) == <<s.member_id, s.group_id, s.subscriber_id, s.meme_ck, s.grgr_ck>>

\* C31: when the answer after a completed specialist inquiry sends the traversal
\* back to the menu, the specialist-only fields (specialist_service_specialty,
\* specialist_raw_filter_input, providers_result) are cleared and the member
\* identity fields are kept, on the same thread.
C31_RestartClearsSpecialistFields ==
    /\ [](run.active /\ run.prev_node = "specialist_post_completion" /\ run.prev_key = "menu" =>
            LET s == values[run.thread] IN
            /\ run.pc = "return_to_menu"
            /\ s.providers_result = <<>>
            /\ ~Truthy(s.specialist_service_specialty)
            /\ ~Truthy(s.specialist_raw_filter_input))
    /\ [][(run.active /\ run.pc \in {"specialist_post_completion", "return_to_menu"} /\ run'.active)
            => MemberIdentity(values'[run.thread]) = MemberIdentity(values[run.thread])]_vars

PcpSteps ==
    {"assign_pcp_ask_termination", "collect_termination_reason", "collect_knows_provider",
     "collect_provider_input", "collect_no_flow_filters", "collect_filter_input",
     "run_provider_search", "provider_interaction", "wait_next_followup",
     "provider_id_only_warning", "update_pcp"}

SpecialistSteps ==
    {"specialist_ask_service", "specialist_ask_filters", "run_specialist_generic_search",
     "specialist_provider_address", "specialist_post_completion"}

\* C32: a PCP-assignment step has executed only on a state whose flow is pcp and a
\* specialist step only with flow specialist; with flow unset or other, the step
\* after the menu is the end of the graph.
C32_FlowSelectsSteps ==
    /\ run.active /\ run.prev_node \in PcpSteps => values[run.thread].flow = "pcp"
    /\ run.active /\ run.prev_node \in SpecialistSteps => values[run.thread].flow = "specialist"
    /\ run.active /\ run.prev_node = "start"
            /\ values[run.thread].flow \notin {"pcp", "specialist"} => run.pc = END

\* C33: a termination_reason that a step stores is the message the user sent in
\* reply to the WAIT_TERMINATION_REASON suspension, the last answer the thread got;
\* and a stored termination_reason is never replaced.
C33_ReasonIsTheReplyToItsQuestion ==
    [][run.active /\ run'.active /\ run.pc \in Nodes =>
        LET before == values[run.thread].termination_reason
            after == values'[run.thread].termination_reason
        IN  /\ Truthy(before) => after = before
            /\ ~Truthy(before) /\ Truthy(after) =>
                    /\ response[run.thread].CurrentStage = "WAIT_TERMINATION_REASON"
                    /\ after = Strip(run.message)]_vars

\* C34: collect_termination_reason never hands over to collect_knows_provider with
\* termination_reason empty; with none captured the next step asks for it again.
C34_NoAdvanceWithoutReason ==
    run.active /\ run.prev_node = "collect_termination_reason"
            /\ ~Truthy(values[run.thread].termination_reason) =>
        /\ run.pc # "collect_knows_provider"
        /\ run.pc = "assign_pcp_ask_termination"

FollowupWaits == {"wait_next_followup", "provider_id_only_warning"}

\* C35: a waiting step of the PCP follow-up loop that is entered from
\* provider_interaction suspends, and returns only as the first step of the
\* invocation that answers it, so a pass holds exactly one suspension and no
\* invocation goes round the loop; and what provider_interaction classifies when
\* the pass comes back to it is the message of the running invocation.
C35_OneSuspensionPerPass ==
    /\ [][run.active /\ run.pc \in FollowupWaits =>
            IF run.steps = 0
            THEN run'.active /\ run'.pc = "provider_interaction" /\ run'.steps = 1
            ELSE /\ run.prev_node = "provider_interaction"
                 /\ ~run'.active /\ hist'[run.thread].suspended_at = run.pc
                 /\ values' = values]_vars
    /\ [][run.active /\ run.pc = "provider_interaction" /\ run.prev_node \in FollowupWaits =>
            /\ run.steps = 1
            /\ run'.active /\ run'.prev_calls # <<>> =>
                    run'.prev_calls[1].arg \in {run.message, Strip(run.message)}]_vars

\* A pass of the loop: the invocation that answers wait_next_followup returned from
\* it, and provider_interaction classified the message of that invocation.
C35_Witness ==
    /\ run.active /\ run.prev_node = "provider_interaction" /\ run.steps = 2
    /\ run.pc \in FollowupWaits
    /\ response[run.thread].CurrentStage \in {"WAIT_NEXT_FOLLOWUP", "PROVIDER_ID_ONLY_WARNING"}
    /\ run.prev_calls # <<>> /\ run.prev_calls[1].arg = run.message

\* The running invocation answers the termination-reason question.
AnswersTerminationReason ==
    run.active /\ response[run.thread].CurrentStage = "WAIT_TERMINATION_REASON"

UpdateDetails(s) ==
    <<Strip(Str(Or(s.last_selected_provider_id, ""))), Strip(Or(s.meme_ck, "")),
      Strip(Or(s.grgr_ck, "")), Strip(Or(s.termination_reason, ""))>>

HasUpdateDetails(s) == \A i \in 1..4 : Truthy(UpdateDetails(s)[i])

Writes(calls) == CountCalls(calls, "terminate") + CountCalls(calls, "add")

\* C37: every execution of update_pcp that issues a terminate or an add write
\* starts from a state with a selected provider id, meme_ck, grgr_ck and
\* termination_reason all non-empty; from a state that lacks one of them the
\* step returns without any external call and the graph ends.
C37_WritesOnlyWithDetails ==
    run.active /\ run.pc = "update_pcp" =>
        \A out \in Outcomes :
            /\ Writes(out.calls) > 0 => HasUpdateDetails(values[run.thread])
            /\ ~HasUpdateDetails(values[run.thread]) =>
                    /\ out.kind = "return" /\ out.calls = <<>>
                    /\ Successors("update_pcp", out.state) = {END}

\* update_pcp has written for a state that holds all the details.
C37_Witness ==
    /\ run.active /\ run.prev_node = "update_pcp" /\ run.pc = END
    /\ Writes(run.prev_calls) = 2 /\ HasUpdateDetails(values[run.thread])

\* update_pcp has returned without a call for a state that lacks a detail.
C37_WitnessMissing ==
    /\ run.active /\ run.prev_node = "update_pcp" /\ run.pc = END
    /\ run.prev_calls = <<>> /\ ~HasUpdateDetails(values[run.thread])
    /\ Truthy(values[run.thread].last_selected_provider_id)

\* update_pcp is about to execute for provider p with p's record as the snapshot.
Assigning(p) ==
    /\ run.active /\ run.pc = "update_pcp"
    /\ values[run.thread].last_selected_provider_id = p
    /\ values[run.thread].selected_provider_snapshot = p

\* C38: whenever update_pcp executes, last_selected_provider_id is the id of a
\* provider of the thread's providers_result with that provider's record as the
\* snapshot, and when the invocation answers a provider list the provider is one of
\* the list that was shown.
C38_AssignedProviderWasShown ==
    run.active /\ run.pc = "update_pcp" =>
        \E p \in ProviderIds :
            /\ Assigning(p)
            /\ InSeq(p, values[run.thread].providers_result)
            /\ response[run.thread].CurrentStage = "SHOW_PROVIDER_LIST" => ListShown(run.thread, p)

\* The part of C38 about the state alone: the provider is in providers_result.
C38_AssignedProviderInResult ==
    run.active /\ run.pc = "update_pcp" =>
        \E p \in ProviderIds : Assigning(p) /\ InSeq(p, values[run.thread].providers_result)

\* The running invocation resumes the thread from the suspension that showed a
\* provider list.
ResumesFromList ==
    /\ run.active /\ run.kind = "chat" /\ run.steps = 0
    /\ run.pc \in {"run_provider_search", "run_specialist_generic_search"}
    /\ response[run.thread].CurrentStage
            \in {"SHOW_PROVIDER_LIST", "SHOW_SPECIALIST_PROVIDER_LIST"}

\* C39: the search collaborator was invoked for the list that was shown; the
\* execution of the search step that resumes from the list's suspension issues no
\* search call.
C39_NoSearchOnResume ==
    ResumesFromList => \A out \in Outcomes : SearchCallsOf(out) = {}

\* The steps the declared transitions lead to from step n: the targets of its
\* path_map, or of its unconditional edge.
DeclaredNext(n) ==
    IF n \in Routed THEN { PathMap(n)[key] : key \in DOMAIN PathMap(n) } ELSE { Edge(n) }

RECURSIVE ReachableFrom(_)
\* The steps reachable along declared transitions from the steps of seen.
ReachableFrom(seen) ==
    LET more == seen \cup ((UNION { DeclaredNext(n) : n \in seen }) \cap Nodes)
    IN  IF more = seen THEN seen ELSE ReachableFrom(more)

\* START has one edge, to start.
ReachableSteps == ReachableFrom({"start"})

\* C40: every step registered in the graph is reachable from START along the
\* declared transitions, and a traversal is only ever at a registered step or at END.
C40_EveryStepReachable ==
    /\ Nodes \subseteq ReachableSteps
    /\ run.active => run.pc \in ReachableSteps \cup {END}

\* The steps other than collect_filter_input are reachable.
C40_OthersReachable ==
    /\ Nodes \ {"collect_filter_input"} \subseteq ReachableSteps
    /\ run.active => run.pc \in ReachableSteps \cup {END}

====
